---- MODULE Spec2Model ----
(***************************************************************************)
(* A model of the city data reconciliation layer of flood-lens-nasa:       *)
(*   src/lib/risk.ts       riskPercentFromScore                            *)
(*   src/lib/fetchCity.ts  fetchJson, backfillLegacy, synthesize, fetchCity *)
(*   src/lib/live.ts       fetchCityLive                                   *)
(*   components/CityCard   toIndexPctFromScore                             *)
(*                                                                         *)
(* JavaScript values are tagged records.  A finite number is held in       *)
(* thousandths, [t |-> "num", v |-> m] standing for m/1000, and arithmetic *)
(* on it is exact decimal arithmetic: the binary rounding error of an IEEE *)
(* double is not modelled.  An object is a function from its own property  *)
(* names to values; a property that is absent is not in the domain.        *)
(***************************************************************************)
EXTENDS Integers, Sequences, FiniteSets, TLC

VARIABLES now, call, result, prev, again, sent, store, home, panel, query, map

\* the state of the followed library call; the request log; the city store
\* and the components; what the store, the panels and the queries leave alone
libVars == <<now, call, result, prev, again>>
compVars == <<store, home, panel, query, map>>
uiVars == <<sent, store, home, panel, query, map>>
restVars == <<now, call, result, prev, again, map>>
vars == <<now, call, result, prev, again, sent, store, home, panel, query, map>>

(***************************************************************************)
(* JavaScript values                                                       *)
(***************************************************************************)
Num(m) == [t |-> "num", v |-> m]
\* a whole number n as a JavaScript number
Int2Num(n) == Num(n * 1000)
NaN == [t |-> "nan"]
PosInf == [t |-> "inf", sign |-> 1]
NegInf == [t |-> "inf", sign |-> -1]
Undef == [t |-> "undefined"]
Null == [t |-> "null"]
Str(s) == [t |-> "str", s |-> s]
Bool(b) == [t |-> "bool", b |-> b]
Obj(f) == [t |-> "obj", f |-> f]
EmptyObj == Obj(<<>>)
\* the empty array []: an object without own enumerable properties
EmptyArr == [t |-> "arr", f |-> <<>>]
\* a thrown exception / the reason of a rejected promise
Throw(name, message, code) ==
    [t |-> "throw", name |-> name, message |-> message, code |-> code]

\* typeof v
TypeOf(v) ==
    CASE v.t \in {"num", "nan", "inf"} -> "number"
      [] v.t = "str" -> "string"
      [] v.t = "bool" -> "boolean"
      [] v.t = "undefined" -> "undefined"
      [] OTHER -> "object"

\* isFinite(v) for a v whose typeof is "number"
IsFiniteNum(v) == v.t = "num"

\* v == null (null or undefined): what ?. and ?? test
Nullish(v) == v.t \in {"undefined", "null"}

\* ToBoolean(v): what ||, ! and ?: test
Truthy(v) ==
    CASE v.t = "num" -> v.v # 0
      [] v.t = "nan" -> FALSE
      [] v.t = "inf" -> TRUE
      [] v.t = "str" -> v.s # ""
      [] v.t = "bool" -> v.b
      [] v.t \in {"undefined", "null"} -> FALSE
      [] OTHER -> TRUE

IsObject(v) == v.t \in {"obj", "arr"}

\* v.k for a v that is not nullish: a primitive has none of the properties read here
Get(v, k) == IF IsObject(v) /\ k \in DOMAIN v.f THEN v.f[k] ELSE Undef

\* v?.k
OptGet(v, k) == IF Nullish(v) THEN Undef ELSE Get(v, k)

\* a ?? b
Coalesce(a, b) == IF Nullish(a) THEN b ELSE a

\* a || b
OrElse(a, b) == IF Truthy(a) THEN a ELSE b

\* the object o with o.k = v assigned
Put(o, k, v) == [o EXCEPT !.f = (k :> v) @@ o.f]

\* { ...v }: the own enumerable properties of v; none for a number, a boolean,
\* null, undefined, the empty string or the empty array
Spread(v) == IF IsObject(v) THEN v.f ELSE <<>>

\* Math.round(x) for a number x: the nearest integer, a half rounding up
MathRound(x) == IF x.t = "num" THEN Num(((x.v + 500) \div 1000) * 1000) ELSE x

\* x * 100 for a number x
Times100(x) == IF x.t = "num" THEN Num(x.v * 100) ELSE x

\* Math.min(a, b) and Math.max(a, b) for a finite a and a number b
MathMin(a, b) ==
    CASE b.t = "nan" -> NaN
      [] b.t = "inf" -> IF b.sign = 1 THEN a ELSE b
      [] OTHER -> IF b.v < a.v THEN b ELSE a

MathMax(a, b) ==
    CASE b.t = "nan" -> NaN
      [] b.t = "inf" -> IF b.sign = 1 THEN b ELSE a
      [] OTHER -> IF b.v > a.v THEN b ELSE a

(***************************************************************************)
(* src/lib/risk.ts                                                         *)
(***************************************************************************)
clamp01(v) == MathMax(Num(0), MathMin(Num(1000), v))

\* 0.28, the fallback score, in thousandths
RiskScoreFallback == 280

\* riskPercentFromScore with the isFinite test left out
riskPercentFromScore_nofinite(score) ==
    LET s == IF TypeOf(score) = "number" THEN score ELSE Num(RiskScoreFallback)
    IN  MathRound(Times100(clamp01(s)))

riskPercentFromScore(score) ==
    LET s == IF TypeOf(score) = "number" /\ IsFiniteNum(score)
             THEN score ELSE Num(RiskScoreFallback)
    IN  MathRound(Times100(clamp01(s)))

\* CityCard: toIndexPctFromScore(score, fallback = 0.28)
CardFallback == 280

toIndexPctFromScore2(score, fallback) ==
    LET s == IF TypeOf(score) = "number" /\ IsFiniteNum(score)
             THEN score ELSE fallback
    IN  MathRound(Times100(clamp01(s)))

toIndexPctFromScore(score) == toIndexPctFromScore2(score, Num(CardFallback))

(***************************************************************************)
(* src/lib/fetchCity.ts: backfillLegacy                                    *)
(***************************************************************************)
TypeError == Throw("TypeError", "TypeError", Undef)

\* the right-hand side written with || in place of ??
Backfill_or(cur, nested, dflt) == OrElse(OrElse(cur, nested), dflt)
\* cur ?? nested ?? dflt: one right-hand side of backfillLegacy
Backfill(cur, nested, dflt) == Coalesce(Coalesce(cur, nested), dflt)

\* "\u2014", the em dash that stands for a missing terrain note
EmDash == Str("U+2014")

\* backfillLegacy(p) assigns properties of p. The module is an ES module, so
\* it runs in strict mode: reading p.rain_0_3_mm of null or undefined throws a
\* TypeError, and so does assigning a property of a number, string or boolean.
backfillLegacy(p) ==
    IF ~IsObject(p) THEN TypeError
    ELSE
    LET rain == OrElse(OptGet(OptGet(p, "metrics"), "rain_mm"), EmptyObj)
        p1 == Put(p, "rain_0_3_mm",
                  Backfill(Get(p, "rain_0_3_mm"), Get(rain, "h0_3"), Num(0)))
        p2 == Put(p1, "rain_0_24_mm",
                  Backfill(Get(p1, "rain_0_24_mm"), Get(rain, "h0_24"), Num(0)))
        p3 == Put(p2, "rain_24_72_mm",
                  Backfill(Get(p2, "rain_24_72_mm"), Get(rain, "h24_72"), Num(0)))
        p4 == Put(p3, "rain_api_72h_mm",
                  Backfill(Get(p3, "rain_api_72h_mm"), Get(rain, "api_72h"), Num(0)))
        t == OrElse(OptGet(OptGet(p4, "metrics"), "terrain"), EmptyObj)
    IN  Put(p4, "terrain_vulnerability_text",
            Backfill(Get(p4, "terrain_vulnerability_text"),
                     Get(t, "vulnerability_note"), EmDash))

(***************************************************************************)
(* src/lib/fetchCity.ts: the seeded generator of synthesize.  A 32-bit     *)
(* word is the pair <<hi, lo>> of its 16-bit halves.                       *)
(***************************************************************************)
RECURSIVE Xor16(_, _)
Xor16(a, b) ==
    IF a = 0 THEN b
    ELSE IF b = 0 THEN a
    ELSE 2 * Xor16(a \div 2, b \div 2) + ((a + b) % 2)

\* a 32-bit word
IsWord32(w) == w[1] \in 0..65535 /\ w[2] \in 0..65535

\* a ^ b on 32-bit words
Xor32(a, b) == <<Xor16(a[1], b[1]), Xor16(a[2], b[2])>>

\* the FNV offset basis 2166136261 = 0x811C9DC5
FnvOffsetHi == 33052
FnvOffsetLo == 40389
\* the FNV prime 16777619 = 0x01000193
FnvPrimeHi == 256
FnvPrimeLo == 403

\* Math.imul(w, 16777619): the low 32 bits of the product
ImulPrime(w) ==
    LET low == w[2] * FnvPrimeLo
    IN  << ((low \div 65536) + w[1] * FnvPrimeLo + w[2] * FnvPrimeHi) % 65536,
           low % 65536 >>

\* h << 13, h >>> 17, h << 5
Shl13(w) == << (w[1] % 8) * 8192 + (w[2] \div 8), (w[2] % 8) * 8192 >>
Shr17(w) == << 0, w[1] \div 2 >>
Shl5(w) == << (w[1] % 2048) * 32 + (w[2] \div 2048), (w[2] % 2048) * 32 >>

\* one step of rnd: h ^= h<<13; h ^= h>>>17; h ^= h<<5
XorShift(h) ==
    LET a == Xor32(h, Shl13(h))
        b == Xor32(a, Shr17(a))
    IN  Xor32(b, Shl5(b))

\* the char codes of the decimal digits of n >= 0 (String(n))
RECURSIVE Digits(_)
Digits(n) == IF n < 10 THEN <<48 + n>> ELSE Append(Digits(n \div 10), 48 + (n % 10))

\* the char codes of the city ids
CharCodes(city) ==
    CASE city = "lagos" -> <<108, 97, 103, 111, 115>>
      [] city = "alexandria" -> <<97, 108, 101, 120, 97, 110, 100, 114, 105, 97>>
      [] city = "cairo" -> <<99, 97, 105, 114, 111>>

\* seed = city + "-" + bucket
Seed(city, bucket) == CharCodes(city) \o <<45>> \o Digits(bucket)

\* for (i...) h = Math.imul(h ^ seed.charCodeAt(i), 16777619)
\* (h stays a 32-bit word at every step)
RECURSIVE Fnv(_, _)
Fnv(h, seed) ==
    CASE seed = <<>> -> h
      [] seed # <<>> /\ IsWord32(h) ->
            Fnv(ImulPrime(Xor32(h, <<0, Head(seed)>>)), Tail(seed))

\* the generator states of the first n calls of rnd, from state h
RECURSIVE RndStates(_, _)
RndStates(h, n) ==
    CASE n = 0 -> <<>>
      [] n > 0 /\ IsWord32(h) ->
            LET h1 == XorShift(h) IN <<h1>> \o RndStates(h1, n - 1)

\* rnd(min, max) in hundredths at generator state h (after its xorshift step):
\* +(min + u*(max-min)).toFixed(2) with u = (h>>>0)/0xffffffff, for min and
\* range = max - min given in hundredths. With N = h*range = A*2^32 + B,
\* N/(2^32-1) = A + (A+B)/(2^32-1); the fraction is never exactly one half
\* (2^32-1 is odd), and it is at least one half exactly when A+B >= 2^31.
Rnd100(h, min, range) ==
    LET X == h[1] * range
        Y == h[2] * range
        mid == (X % 65536) + (Y \div 65536)
        A == (X \div 65536) + (mid \div 65536)
        Bhi == mid % 65536
        Blo == Y % 65536
        Rhi == Bhi + ((Blo + A) \div 65536)
    IN  min + A + (IF Rhi >= 32768 THEN 1 ELSE 0)

\* the integer nearest to n/d (d > 0), a half rounding away from zero: what
\* toFixed does with the exact decimal value
RoundDiv(n, d) ==
    IF n >= 0 THEN (2 * n + d) \div (2 * d) ELSE -((2 * (-n) + d) \div (2 * d))

(***************************************************************************)
(* src/lib/fetchCity.ts: synthesize.  Inside, rainfall and elevation are   *)
(* whole tenths and the other quantities whole hundredths.  toFixed is     *)
(* applied to the exact decimal value: where that value is exactly halfway *)
(* between two results the model rounds away from zero, while the double   *)
(* the code holds may lie a rounding error below the tie.                  *)
(***************************************************************************)
\* 3*3600*1000, the width of a bucket in milliseconds
BucketMs == 10800000

\* the clock reading itself taken for the bucket
current3hBucket_ms(ms) == ms
\* Math.floor(ms / (3*3600*1000))
current3hBucket(ms) == ms \div BucketMs

\* new Date(ms).toISOString(), for an instant of January 1970
ToISOString(ms) ==
    [year |-> 1970, month |-> 1, day |-> 1 + (ms \div 86400000),
     hour |-> (ms \div 3600000) % 24, minute |-> (ms \div 60000) % 60,
     second |-> (ms \div 1000) % 60, milli |-> ms % 1000]

IsoStr(ms) == [t |-> "str", s |-> "iso", at |-> ToISOString(ms)]

\* a count of tenths, of hundredths, as a JavaScript number
Tenths(n) == Num(n * 100)
Hundredths(n) == Num(n * 10)

Max0(n) == IF n < 0 THEN 0 ELSE n
MinInt(a, b) == IF a < b THEN a ELSE b
MaxInt(a, b) == IF a > b THEN a ELSE b

\* the level with > in place of >=
SynthLevel_gt(score) == IF score > 33 THEN "medium" ELSE "low"
\* score >= 0.33 ? "medium" : "low", for a score in hundredths
SynthLevel(score) == IF score >= 33 THEN "medium" ELSE "low"

\* hand < 0.35 ? ... : ..., for hand in hundredths
TerrainNote(hand) ==
    IF hand < 35 THEN Str("Low-lying areas near drainage")
    ELSE Str("Moderate elevation relative to drainage")

MockSource == Str("model:mock-v2(client)")

\* synthesize(city) when Date.now() returns tBucket and new Date() reads tNow
synthesize(city, tBucket, tNow) ==
    LET bucket == current3hBucket(tBucket)
        h0 == Fnv(<<FnvOffsetHi, FnvOffsetLo>>, Seed(city, bucket))
        r == RndStates(h0, 10)
        rain24 == RoundDiv(Rnd100(r[1], 400, 4100), 10)
        rain03 == RoundDiv(12 * rain24 + 10 * Rnd100(r[2], -60, 120), 100)
        rain2472 == RoundDiv(8 * rain24 + Rnd100(r[3], -200, 400), 10)
        api72 == Max0(RoundDiv(10 * rain24 + 10 * rain2472
                               + Rnd100(r[4], -300, 600), 10))
        hand == MaxInt(0, MinInt(100, Rnd100(r[5], 15, 50)))
        elev == RoundDiv(Rnd100(r[6], 300, 8700), 10)
        sarWater == Rnd100(r[7], 20, 730)
        floodKm2 == Rnd100(r[8], 0, 300)
        \* rainTerm + handTerm + sarTerm + rnd(-0.05, 0.05), in 1/60000
        sum == 45 * MinInt(600, rain24) + 210 * (100 - hand)
               + 20 * MinInt(600, floodKm2) + 600 * Rnd100(r[9], -5, 10)
        score == MaxInt(18, MinInt(60, RoundDiv(sum, 600)))
        level == SynthLevel(score)
        conf == Rnd100(r[10], 55, 15)
    IN  backfillLegacy(Obj(
        [city |-> Str(city),
         timestamp_iso |-> IsoStr(tNow),
         bucket_3h |-> Int2Num(bucket),
         source |-> MockSource,
         rain_0_3_mm |-> Tenths(Max0(rain03)),
         rain_0_24_mm |-> Tenths(Max0(rain24)),
         rain_24_72_mm |-> Tenths(Max0(rain2472)),
         rain_api_72h_mm |-> Tenths(api72),
         terrain_vulnerability_text |-> TerrainNote(hand),
         metrics |-> Obj(
            [rain_mm |-> Obj([h0_3 |-> Tenths(Max0(rain03)),
                              h0_24 |-> Tenths(Max0(rain24)),
                              h24_72 |-> Tenths(Max0(rain2472)),
                              api_72h |-> Tenths(api72)]),
             terrain |-> Obj([elevation_m_mean |-> Tenths(elev),
                              hand_index_0_1 |-> Hundredths(hand),
                              vulnerability_note |-> TerrainNote(hand)]),
             sar_water_km2 |-> Hundredths(sarWater),
             flood_extent_km2 |-> Hundredths(floodKm2),
             sar_detections |-> EmptyArr,
             risk_score_0_1 |-> Hundredths(score),
             risk_level |-> Str(level),
             confidence_0_1 |-> Hundredths(conf)]),
         prediction |-> Obj(
            [index_pct |-> MathRound(Times100(Hundredths(score))),
             label |-> Str(level),
             valid_until_iso |-> IsoStr(tNow + BucketMs),
             method |-> Str("mock-blend(hand, rain, sar)"),
             explanation |-> Str("Client mock to guarantee filled UI.")])]))

(***************************************************************************)
(* The network.  A request ends in one of: a transport failure (fetch      *)
(* rejects), a response with a status, whose body either parses as JSON    *)
(* to a value or does not parse.                                           *)
(***************************************************************************)
BadJson == [t |-> "badjson"]
NetFailure == [kind |-> "failure", status |-> 0, body |-> BadJson]
Response(status, body) == [kind |-> "response", status |-> status, body |-> body]

\* res.ok
ResOk(net) == net.kind = "response" /\ net.status >= 200 /\ net.status <= 299

\* the statuses of the responses that are not ok
ErrorStatuses == {404, 500, 503}

\* every way a request can end, for the set Bodies of JSON values a 200 may carry
NetOutcomes(Bodies) ==
    {NetFailure}
    \cup {Response(st, BadJson) : st \in ErrorStatuses \cup {200}}
    \cup {Response(200, b) : b \in Bodies}

(***************************************************************************)
(* src/lib/fetchCity.ts: fetchJson, fetchCity                              *)
(***************************************************************************)
\* fetchJson without its try/catch
fetchJson_nocatch(net) ==
    IF net.kind = "failure" THEN Throw("TypeError", "Failed to fetch", Undef)
    ELSE IF ~ResOk(net) THEN Null
    ELSE IF net.body = BadJson THEN Throw("SyntaxError", "Unexpected token", Undef)
    ELSE net.body

\* try { res = await fetch(..); if (!res.ok) return null; return await res.json() }
\* catch { return null }
fetchJson(net) ==
    IF net.kind = "failure" THEN Null
    ELSE IF ~ResOk(net) THEN Null
    ELSE IF net.body = BadJson THEN Null
    ELSE net.body

\* whether fetchCity, given this response, goes on to synthesize
UsesSynthesize(net) ==
    LET server == fetchJson(net) IN server.t # "throw" /\ ~Truthy(server)

\* fetchCity(city): the value it resolves to, or the Throw it rejects with;
\* tBucket and tNow are the two clock readings of synthesize
fetchCity(city, net, tBucket, tNow) ==
    LET server == fetchJson(net)
    IN  IF server.t = "throw" THEN server
        ELSE IF Truthy(server) THEN backfillLegacy(server)
        ELSE synthesize(city, tBucket, tNow)

(***************************************************************************)
(* src/lib/live.ts: fetchCityLive                                          *)
(***************************************************************************)
\* 0.25, the score live.ts assumes when risk.score is no number, in thousandths
LiveScoreFallback == 250

DefaultNotes ==
    Str("Derived from blended hydro-terrain indicators and recent satellite observations.")

\* x / 100 for a number x (to the thousandth)
Over100(x) == IF x.t = "num" THEN Num(x.v \div 100) ELSE x

\* LiveIndex taking a stored index_pct for a percent to be scaled to a fraction
LiveIndex_fraction(raw, score) ==
    LET p == OptGet(raw, "prediction")
    IN  IF TypeOf(OptGet(p, "index_pct")) = "number"
        THEN Over100(OptGet(p, "index_pct"))
        ELSE IF TypeOf(OptGet(p, "risk_index")) = "number"
        THEN OptGet(p, "risk_index")
        ELSE MathRound(Times100(score))

\* const idx = typeof raw?.prediction?.index_pct === "number" ? ... (lines 43-47)
LiveIndex(raw, score) ==
    LET p == OptGet(raw, "prediction")
    IN  IF TypeOf(OptGet(p, "index_pct")) = "number"
        THEN OptGet(p, "index_pct")
        ELSE IF TypeOf(OptGet(p, "risk_index")) = "number"
        THEN OptGet(p, "risk_index")
        ELSE MathRound(Times100(score))

\* the normalization of a parsed document (lines 41-67)
LiveAlign(raw) ==
    LET s == OptGet(OptGet(raw, "risk"), "score")
        score == IF TypeOf(s) = "number" THEN s ELSE Num(LiveScoreFallback)
        idx == LiveIndex(raw, score)
    IN  \* raw.prediction?.confidence reads a property of raw itself
        IF Nullish(raw) THEN TypeError
        ELSE
        LET pred == Get(raw, "prediction")
            conf == OrElse(OrElse(OptGet(pred, "confidence"), Get(raw, "confidence")),
                           Str("medium"))
            notes == OrElse(OptGet(pred, "notes"), DefaultNotes)
        IN  Obj(("prediction" :>
                    Obj(("index_pct" :> idx) @@ ("confidence" :> conf)
                        @@ ("notes" :> notes) @@ Spread(pred)))
                @@ ("confidence" :> conf)
                @@ Spread(raw))

\* the Error thrown for a response that is not ok (line 37)
LiveHttpError(id, status) ==
    Throw("Error", [text |-> "Failed to fetch live data for", id |-> id,
                    status |-> status], Undef)

\* fetchCityLive(cityId): the value it resolves to, or the Throw it rejects with
fetchCityLive(id, net) ==
    IF net.kind = "failure" THEN Throw("TypeError", "Failed to fetch", Undef)
    ELSE IF ~ResOk(net) THEN LiveHttpError(id, net.status)
    ELSE IF net.body = BadJson THEN Throw("SyntaxError", "Unexpected token", Undef)
    ELSE LiveAlign(net.body)

(***************************************************************************)
(* The inputs: city ids, clock readings, documents                         *)
(***************************************************************************)
Cities == {"lagos", "alexandria"}

\* the clock runs over the first MaxBucket + 1 buckets
MaxBucket == 1

\* the first, second and last millisecond of each bucket
Times == {b * BucketMs + o : b \in 0..MaxBucket, o \in {0, 1, BucketMs - 1}}

\* what a later reading of the clock within one synchronous run may return
ClockAfter(t) == {u \in Times : u >= t /\ u - t <= 1}

\* the partial objects with the optional property k drawn from S
Opt(k, S) == {<<>>} \cup {k :> v : v \in S}

\* the legacy flat fields of a server document
FlatFields ==
    {a @@ b @@ c :
        a \in Opt("rain_0_3_mm", {Null, Num(0), Num(1100)}),
        b \in {<<>>, [rain_0_24_mm |-> Num(9900), rain_24_72_mm |-> Num(7700),
                      rain_api_72h_mm |-> Num(0)]},
        c \in Opt("terrain_vulnerability_text", {Str(""), Str("Flat note")})}

FullRain == [h0_3 |-> Num(3600), h0_24 |-> Num(30000), h24_72 |-> Num(24000),
             api_72h |-> Num(54000)]

\* the values a server document may carry as metrics
MetricsValues ==
    {Null, Num(5000)}
    \cup {Obj(r @@ t) :
            r \in Opt("rain_mm", {Num(5000), Obj([h0_24 |-> Num(30000)]),
                                  Obj(FullRain)}),
            t \in Opt("terrain", {Obj([vulnerability_note |-> Str("Nested note")])})}

\* the JSON values the server may send for a city
ServerBodies ==
    {Null, Num(0), Num(5000), Str(""), Str("x"), Bool(TRUE), Bool(FALSE), EmptyArr}
    \cup {Obj(f @@ m) : f \in FlatFields, m \in Opt("metrics", MetricsValues)}
    \cup {Obj([rain_mm |-> Obj([h0_24 |-> Num(30000)])])}

\* the risk.score values of a live document: scores on the 0-1 scale, scores
\* out of range, a README-style score on the 0-100 scale, 1e999, and non-numbers
LiveScores ==
    {Num(0), Num(285), Num(500), Num(-100), Num(62400), PosInf, Str("0.5")}

\* the percents a live document may carry: a whole percent, a fractional one,
\* one out of range
LivePercents == {Num(100000), Num(12500), Num(250000)}

\* prediction.index_pct and prediction.risk_index of a live document
LiveIndexFields ==
    Opt("index_pct", LivePercents)
    \cup {[risk_index |-> Num(35000)],
          [index_pct |-> Str("40"), risk_index |-> Num(35000)],
          [index_pct |-> Str("40")]}

LivePredictions ==
    {Null}
    \cup {Obj(a @@ c) :
            a \in LiveIndexFields,
            c \in {<<>>, [confidence |-> Null, notes |-> Str("")],
                   [confidence |-> Str("high"), notes |-> Str("Persisted forecast")]}}

\* the JSON values the server may send as a live document
\* live documents that carry a confidence under sar
LiveSarBodies ==
    {Obj(p @@ c @@ [sar |-> Obj([confidence |-> Str("low")]), cityId |-> Str("lagos")]) :
        p \in Opt("prediction", {Obj([notes |-> Str("Persisted forecast")]),
                                 Obj([confidence |-> Str("high")])}),
        c \in Opt("confidence", {Str("high")})}

LiveBodies ==
    {Null, Num(5000), EmptyArr}
    \cup LiveSarBodies
    \cup {Obj(r @@ p @@ c @@ [cityId |-> Str("lagos")]) :
            r \in Opt("risk", {EmptyObj} \cup {Obj([score |-> x]) : x \in LiveScores}),
            p \in Opt("prediction", LivePredictions),
            c \in Opt("confidence", {Str("high")})}

\* how far the scores given to the percent functions range beyond 0 and 1,
\* in thousandths
ScoreSlack == 12

\* the values given to riskPercentFromScore and toIndexPctFromScore
ScoreInputs ==
    {Num(k) : k \in (0 - ScoreSlack)..ScoreSlack}
    \cup {Num(k) : k \in (1000 - ScoreSlack)..(1000 + ScoreSlack)}
    \cup {Num(5 * k) : k \in 0..200}
    \cup {Num(62400), Num(-62400), NaN, PosInf, NegInf, Undef, Null, Str("0.5"),
          Bool(TRUE), EmptyObj}

(***************************************************************************)
(* The state.  One call is followed at a time:                             *)
(*   now     the clock, in milliseconds                                    *)
(*   call    the call in flight (awaiting the network), or Idle            *)
(*   result  how the last call ended, or None                              *)
(*   prev    how the call before it ended, kept while the two can be       *)
(*           compared (two synthesized payloads, two rejections), or None  *)
(* Time passes while a request is in flight; the percent functions, which  *)
(* read no state, are followed apart from the loaders.                     *)
(*   again   the reconciliation of result.out applied once more, or None   *)
(***************************************************************************)
Idle == [fn |-> "idle"]
None == [fn |-> "none"]

\* fetchJson: `${path}?t=${Date.now()}` with path = base + data/<city>.json
\* (fetchCity.ts lines 37 and 114), the clock reading t
FetchJsonUrl(city, t) == [path |-> "data", city |-> city, t |-> t]

\* fetchCityLive: `${base}data/live/${cityId}.json?t=${current3hBucket()}`
\* (live.ts lines 32-33), the clock reading t
LiveUrl(id, t) == [path |-> "data/live", city |-> id, t |-> current3hBucket(t)]

\* a result that is kept for comparison with the next call's
Comparable(r) ==
    \/ r.fn = "fetchCity" /\ r.synth
    \/ r.fn = "fetchCityLive" /\ r.out.t = "throw"

\* what is kept of such a result
Kept(r) ==
    IF r.fn = "fetchCity"
    THEN [fn |-> r.fn, arg |-> r.arg, t1 |-> r.t1, t2 |-> r.t2, out |-> r.out]
    ELSE [fn |-> r.fn, arg |-> r.arg, net |-> r.net, out |-> r.out]

\* no city id: selectedCityId null, selectedCity?.id undefined
NoId == ""

\* useCityStore as created: cities [], selectedCityId null
\* (a city is held by its id; the list is a sequence of ids); in the store of
\* store/cityStore.ts, cityMetrics: new Map()
StoreInit == [cities |-> <<>>, selectedCityId |-> NoId, cityMetrics |-> <<>>]

\* Home before it is mounted: useState(null), useState(false), no fetch begun.
\* runs holds the runs of the city load effect whose fetchCity is in flight,
\* each with its city and its cancelled flag; writer is the last run whose
\* continuation called setCityData or setLoadingCity; dataFor is the city
\* whose fetch wrote cityData.
HomeOff ==
    [mounted |-> FALSE, cityData |-> Null, dataFor |-> NoId, loadingCity |-> FALSE,
     runs |-> <<>>, writer |-> [city |-> NoId, cancelled |-> FALSE]]

\* CityPanel before it is mounted: useState(false), useState(null).
\* pending: fetchCities of loadCities is in flight; late: the setters
\* loadCities called after its effect was cleaned up.  In the metrics-based
\* CityPanel, metricsCalls holds the cities whose fetchCityMetrics is in
\* flight and settled the city whose call ended last.  bucket is the state
\* of useState(current3hBucket()); nextTick is when the interval of the
\* rollover effect fires next; since is the bucket at the mount and
\* invalidated the number of invalidateQueries calls of the interval.
PanelOff ==
    [mounted |-> FALSE, isLoading |-> FALSE, error |-> Null, cancelled |-> FALSE,
     pending |-> FALSE, late |-> {},
     bucket |-> 0, nextTick |-> 0, since |-> 0, invalidated |-> 0,
     metricsCalls |-> {}, settled |-> NoId]

\* no "city-live" query is mounted
QueryOff == [mounted |-> FALSE]

\* no SAR tile set: sarOverlayKey null
NoKey == ""

\* MapView before it is mounted: useRef(false), useState(false).  docs holds,
\* for the cities whose live document is in the query cache, the key of its
\* tiles (NoKey for a document without tiles); key is sarOverlayKey as last
\* rendered; by is who set showSarOverlay last and offAt the tile key shown
\* when the user switched the overlay off.
MapOff ==
    [mounted |-> FALSE, docs |-> <<>>, key |-> NoKey, sarInitialized |-> FALSE,
     showSarOverlay |-> FALSE, by |-> "none", offAt |-> NoKey]

\* no component is mounted and no request has been logged
UiOff ==
    /\ sent = <<>>
    /\ store = StoreInit
    /\ home = HomeOff
    /\ panel = PanelOff
    /\ query = QueryOff
    /\ map = MapOff

Init ==
    /\ now = 0
    /\ call = Idle
    /\ result = None
    /\ prev = None
    /\ again = None
    /\ UiOff

\* time passes
Tick ==
    /\ call # Idle
    /\ \E t \in Times : t > now /\ now' = t
    /\ UNCHANGED <<call, result, prev, again>>
    /\ UNCHANGED uiVars

\* fetchCity(city) up to its await of fetchJson: the request is sent with ?t=Date.now()
StartFetchCity ==
    /\ call = Idle
    /\ \E city \in Cities :
          call' = [fn |-> "fetchCity", arg |-> city, url |-> FetchJsonUrl(city, now)]
    /\ prev' = IF Comparable(result) THEN Kept(result) ELSE None
    /\ result' = None
    /\ again' = None
    /\ UNCHANGED now
    /\ UNCHANGED uiVars

\* the request of fetchCity ends and fetchCity runs to its return
SettleFetchCity ==
    /\ call.fn = "fetchCity"
    /\ \E net \in NetOutcomes(ServerBodies) :
       \E tNow \in ClockAfter(now) :
          /\ UsesSynthesize(net) \/ tNow = now
          /\ result' = [fn |-> "fetchCity", arg |-> call.arg, url |-> call.url,
                        net |-> net, synth |-> UsesSynthesize(net),
                        t1 |-> now, t2 |-> tNow,
                        out |-> fetchCity(call.arg, net, now, tNow)]
          /\ now' = tNow
    /\ prev' = IF Comparable(result') /\ prev.fn = "fetchCity" THEN prev ELSE None
    /\ call' = Idle
    /\ UNCHANGED again
    /\ UNCHANGED uiVars

\* backfillLegacy applied to the payload fetchCity resolved to
ReapplyBackfill ==
    /\ call = Idle
    /\ result.fn = "fetchCity"
    /\ result.out.t # "throw"
    /\ again = None
    /\ again' = [out |-> backfillLegacy(result.out)]
    /\ UNCHANGED <<now, call, result, prev>>
    /\ UNCHANGED uiVars

\* fetchCityLive(cityId) up to its await of fetch: the request is sent with
\* ?t=current3hBucket()
StartFetchCityLive ==
    /\ call = Idle
    /\ \E id \in Cities :
          call' = [fn |-> "fetchCityLive", arg |-> id, url |-> LiveUrl(id, now)]
    /\ prev' = IF Comparable(result) THEN Kept(result) ELSE None
    /\ result' = None
    /\ again' = None
    /\ UNCHANGED now
    /\ UNCHANGED uiVars

\* the request of fetchCityLive ends and fetchCityLive runs to its return or throw
SettleFetchCityLive ==
    /\ call.fn = "fetchCityLive"
    /\ \E net \in NetOutcomes(LiveBodies) :
          result' = [fn |-> "fetchCityLive", arg |-> call.arg, url |-> call.url,
                     net |-> net, synth |-> FALSE, t1 |-> now, t2 |-> now,
                     out |-> fetchCityLive(call.arg, net)]
    /\ prev' = IF Comparable(result') /\ prev.fn = "fetchCityLive" THEN prev ELSE None
    /\ call' = Idle
    /\ UNCHANGED <<now, again>>
    /\ UNCHANGED uiVars

\* the normalization of fetchCityLive applied to the value it resolved to
ReapplyLiveAlign ==
    /\ call = Idle
    /\ result.fn = "fetchCityLive"
    /\ result.out.t # "throw"
    /\ again = None
    /\ again' = [out |-> LiveAlign(result.out)]
    /\ UNCHANGED <<now, call, result, prev>>
    /\ UNCHANGED uiVars

\* riskPercentFromScore(score)
CallRiskPercentFromScore ==
    /\ call = Idle
    /\ result.fn \notin {"fetchCity", "fetchCityLive"}
    /\ \E score \in ScoreInputs :
          result' = [fn |-> "riskPercentFromScore", arg |-> score,
                     out |-> riskPercentFromScore(score)]
    /\ prev' = None
    /\ again' = None
    /\ UNCHANGED <<now, call>>
    /\ UNCHANGED uiVars

\* CityCard: toIndexPctFromScore(score), the fallback left to its default
CallToIndexPctFromScore ==
    /\ call = Idle
    /\ result.fn \notin {"fetchCity", "fetchCityLive"}
    /\ \E score \in ScoreInputs :
          result' = [fn |-> "toIndexPctFromScore", arg |-> score,
                     out |-> toIndexPctFromScore(score)]
    /\ prev' = None
    /\ again' = None
    /\ UNCHANGED <<now, call>>
    /\ UNCHANGED uiVars

Next ==
    \/ Tick
    \/ StartFetchCity
    \/ SettleFetchCity
    \/ ReapplyBackfill
    \/ StartFetchCityLive
    \/ SettleFetchCityLive
    \/ ReapplyLiveAlign
    \/ CallRiskPercentFromScore
    \/ CallToIndexPctFromScore

Spec == Init /\ [][Next]_vars

(***************************************************************************)
(* Properties                                                              *)
(***************************************************************************)
\* the request ended in a transport failure, a status that is not ok, or a
\* body that does not parse
NetFailed(net) == net.kind = "failure" \/ ~ResOk(net) \/ net.body = BadJson

\* a number that is not NaN
IsNumber(v) == v.t \in {"num", "inf"}
\* a finite number that is a whole number
IsWhole(v) == v.t = "num" /\ v.v % 1000 = 0
Defined(v) == v.t # "undefined"

\* C1: riskPercentFromScore and toIndexPctFromScore return a whole number in
\* 0..100: for a finite score the nearest whole percent of the score clamped to
\* [0,1] (a half rounding up), and 28 for every other value.
C1_RiskPercent ==
    result.fn \in {"riskPercentFromScore", "toIndexPctFromScore"} =>
        LET s == result.arg
            r == result.out
        IN  /\ IsWhole(r)
            /\ r.v >= 0 /\ r.v <= 100000
            /\ IF s.t = "num"
               THEN /\ s.v <= 0 => r.v = 0
                    /\ s.v >= 1000 => r.v = 100000
                    /\ (s.v >= 0 /\ s.v <= 1000) =>
                          (r.v - 500 <= 100 * s.v /\ 100 * s.v < r.v + 500)
               ELSE r.v = 28000

\* riskPercentFromScore was given no score (undefined) and returned 28
C1_Witness ==
    /\ result.fn = "riskPercentFromScore"
    /\ result.arg = Undef
    /\ result.out = Int2Num(28)

RainKeys == {"h0_3", "h0_24", "h24_72", "api_72h"}
FlatRainKeys == {"rain_0_3_mm", "rain_0_24_mm", "rain_24_72_mm", "rain_api_72h_mm"}
FlatKeys == FlatRainKeys \cup {"terrain_vulnerability_text"}

\* every field of a CityPayload is defined and no numeric field is NaN
FullyPopulated(p) ==
    LET m == Get(p, "metrics")
        pr == Get(p, "prediction")
    IN  /\ \A k \in {"city", "timestamp_iso", "source", "terrain_vulnerability_text"} :
              Get(p, k).t = "str"
        /\ \A k \in FlatRainKeys \cup {"bucket_3h"} : IsNumber(Get(p, k))
        /\ \A k \in RainKeys : IsNumber(Get(Get(m, "rain_mm"), k))
        /\ \A k \in {"elevation_m_mean", "hand_index_0_1"} :
              IsNumber(Get(Get(m, "terrain"), k))
        /\ Get(Get(m, "terrain"), "vulnerability_note").t = "str"
        /\ \A k \in {"sar_water_km2", "flood_extent_km2", "risk_score_0_1",
                     "confidence_0_1"} : IsNumber(Get(m, k))
        /\ Get(m, "sar_detections").t = "arr"
        /\ Get(m, "risk_level").t = "str"
        /\ IsNumber(Get(pr, "index_pct"))
        /\ \A k \in {"label", "valid_until_iso", "method", "explanation"} :
              Get(pr, k).t = "str"

\* C2: when the request of fetchCity ends in a 404, another status that is not
\* ok, a transport failure or an unparseable body, fetchCity resolves to a
\* payload whose source is the mock tag and whose fields are all defined, no
\* numeric field NaN.
C2_FallbackPopulated ==
    (result.fn = "fetchCity" /\ NetFailed(result.net)) =>
        /\ result.out.t = "obj"
        /\ Get(result.out, "source") = MockSource
        /\ FullyPopulated(result.out)

\* fetchCity("alexandria") got a 404 and resolved to an object
C2_Witness ==
    /\ result.fn = "fetchCity"
    /\ result.arg = "alexandria"
    /\ result.net.kind = "response" /\ result.net.status = 404
    /\ result.out.t = "obj"

\* C3: two calls of synthesize for the same city whose clock readings fall in
\* the same 3-hour bucket return payloads equal in every field.
C3_SynthDeterministic ==
    (/\ result.fn = "fetchCity" /\ result.synth
     /\ prev.fn = "fetchCity"
     /\ prev.arg = result.arg
     /\ current3hBucket(prev.t1) = current3hBucket(result.t1)) =>
        prev.out = result.out

\* C4: backfillLegacy applied to the payload backfillLegacy returned, and the
\* normalization of fetchCityLive applied to the value it returned, change
\* nothing.
C4_Idempotent == again # None => again.out = result.out

\* a server document that backfillLegacy changed was reconciled a second time
C4_Witness ==
    /\ again # None
    /\ result.fn = "fetchCity"
    /\ ~result.synth
    /\ result.out # result.net.body

\* the property k of the object v is present with a value (not null)
Present(v, k) == IsObject(v) /\ k \in DOMAIN v.f /\ ~Nullish(v.f[k])

\* C5: when the server document carries all four flat rain fields and the
\* terrain note with a value, the payload fetchCity resolves to has each of
\* them unchanged, whatever metrics holds.
C5_ExplicitPreserved ==
    (/\ result.fn = "fetchCity"
     /\ ~NetFailed(result.net)
     /\ \A k \in FlatKeys : Present(result.net.body, k)) =>
        /\ result.out.t = "obj"
        /\ \A k \in FlatKeys : Get(result.out, k) = Get(result.net.body, k)

\* all five were present, rain_0_3_mm a measured 0 and the terrain note empty,
\* while metrics holds other values for both
C5_Witness ==
    /\ result.fn = "fetchCity"
    /\ ~NetFailed(result.net)
    /\ \A k \in FlatKeys : Present(result.net.body, k)
    /\ Get(result.net.body, "rain_0_3_mm") = Num(0)
    /\ Get(result.net.body, "terrain_vulnerability_text") = Str("")
    /\ Get(Get(Get(result.net.body, "metrics"), "rain_mm"), "h0_3") = Num(3600)
    /\ Present(Get(Get(result.net.body, "metrics"), "terrain"), "vulnerability_note")

\* fetchCityLive resolved
LiveResolved == result.fn = "fetchCityLive" /\ result.out.t = "obj"
\* what the document carried, what the result carries
RawScore == OptGet(OptGet(result.net.body, "risk"), "score")
RawPrediction == OptGet(result.net.body, "prediction")
OutIndexPct == Get(Get(result.out, "prediction"), "index_pct")

\* C6: for a live document whose risk.score is a finite number, the returned
\* prediction.index_pct is round(clamp(score, 0, 1) * 100).
C6_IndexFromScore ==
    (LiveResolved /\ RawScore.t = "num") =>
        OutIndexPct = MathRound(Times100(clamp01(RawScore)))

\* C7: for a live document with no numeric risk.score, prediction.index_pct or
\* prediction.risk_index, the returned prediction.index_pct is 28.
C7_LiveFallback28 ==
    (/\ LiveResolved
     /\ TypeOf(RawScore) # "number"
     /\ TypeOf(OptGet(RawPrediction, "index_pct")) # "number"
     /\ TypeOf(OptGet(RawPrediction, "risk_index")) # "number") =>
        OutIndexPct = Int2Num(28)

\* C8: the prediction.index_pct fetchCityLive returns is a whole number in 0..100.
C8_LiveIndexRange ==
    LiveResolved =>
        IsWhole(OutIndexPct) /\ OutIndexPct.v >= 0 /\ OutIndexPct.v <= 100000

\* C9: fetchCity does not reject when the server answers with a body that
\* parses as JSON, whatever the value.
C9_NeverThrows ==
    (result.fn = "fetchCity" /\ ~NetFailed(result.net)) => result.out.t # "throw"

\* what a caller can test of an error without reading its message: its class
\* and its code
ErrorKind(e) == [name |-> e.name, code |-> e.code]

\* C10: the error fetchCityLive rejects with for a 404 is of another kind than
\* the error it rejects with for any other status that is not ok.
C10_NotFoundDistinct ==
    (/\ result.fn = "fetchCityLive" /\ prev.fn = "fetchCityLive"
     /\ result.net.kind = "response" /\ result.net.status = 404
     /\ prev.net.kind = "response" /\ ~ResOk(prev.net) /\ prev.net.status # 404) =>
        ErrorKind(result.out) # ErrorKind(prev.out)

(***************************************************************************)
(* synthesize followed alone, over more cities and buckets than the        *)
(* loaders above reach: fetchCity.ts lines 56-111                          *)
(***************************************************************************)
SynthCities == {"lagos", "alexandria", "cairo"}

\* the buckets 0..SynthBuckets are visited
SynthBuckets == 59

\* synthesize(city), the clock reading t at both of its reads; the clock has
\* stayed in its bucket or moved on to the next
CallSynthesize ==
    /\ \E city \in SynthCities, b \in 0..SynthBuckets, o \in {0, 1} :
          /\ b \in {now \div BucketMs, now \div BucketMs + 1}
          /\ b * BucketMs + o >= now
          /\ now' = b * BucketMs + o
          /\ result' = [fn |-> "synthesize", arg |-> city, t1 |-> now', t2 |-> now',
                        out |-> synthesize(city, now', now')]
    /\ UNCHANGED <<call, prev, again>>
    /\ UNCHANGED uiVars

SynthNext == CallSynthesize

SynthSpec == Init /\ [][SynthNext]_vars

\* C12: every payload synthesize returns has 0.18 <= metrics.risk_score_0_1 <=
\* 0.60, metrics.risk_level "medium" exactly when the score is >= 0.33 and
\* "low" otherwise, prediction.label equal to the level and
\* prediction.index_pct equal to round(score * 100), within 18..60.
C12_SynthScoreBounds ==
    result.fn = "synthesize" =>
        LET m == Get(result.out, "metrics")
            p == Get(result.out, "prediction")
            score == Get(m, "risk_score_0_1")
            level == Get(m, "risk_level")
            idx == Get(p, "index_pct")
        IN  /\ score.t = "num" /\ score.v >= 180 /\ score.v <= 600
            /\ level = (IF score.v >= 330 THEN Str("medium") ELSE Str("low"))
            /\ Get(p, "label") = level
            /\ idx = MathRound(Times100(score))
            /\ idx.v >= 18000 /\ idx.v <= 60000

\* synthesize("alexandria") in bucket 3 returned a score of exactly 0.33, on the
\* boundary between the two levels
C12_Witness ==
    /\ result.fn = "synthesize"
    /\ result.arg = "alexandria"
    /\ Get(result.out, "bucket_3h") = Int2Num(3)
    /\ Get(Get(result.out, "metrics"), "risk_score_0_1") = Num(330)
    /\ Get(Get(result.out, "metrics"), "risk_level") = Str("medium")

(***************************************************************************)
(* Properties of the reconciliation of a server document                   *)
(***************************************************************************)
\* fetchCity resolved with a server document that is an object
ServerObject ==
    /\ result.fn = "fetchCity"
    /\ ~NetFailed(result.net)
    /\ result.net.body.t = "obj"

\* the rain object of a raw document: metrics.rain_mm, or rain_mm at the top
RawRain(body) ==
    IF "metrics" \in DOMAIN body.f THEN OptGet(Get(body, "metrics"), "rain_mm")
    ELSE Get(body, "rain_mm")

\* the raw document gives the 24-hour rainfall, a number, and nothing else
OnlyH24(body) ==
    /\ DOMAIN body.f \in {{"metrics"}, {"rain_mm"}}
    /\ "metrics" \in DOMAIN body.f => DOMAIN Spread(Get(body, "metrics")) = {"rain_mm"}
    /\ RawRain(body).t = "obj"
    /\ DOMAIN Spread(RawRain(body)) = {"h0_24"}
    /\ Get(RawRain(body), "h0_24").t = "num"

\* (mul/100) * x to one decimal, for x in thousandths
ToTenth(mul, x) == Num(100 * RoundDiv(mul * x, 10000))

\* C13: a raw payload that gives only the 24-hour rainfall h24 is reconciled
\* to h0_3 = round(0.12 * h24, 1), h0_24 = h24, h24_72 = round(0.8 * h24, 1),
\* api72 = round(h24 + h24_72, 1), the terrain note "U+2014" and prediction
\* index 28; {h0_24: 30} gives 3.6, 30, 24 and 54.
C13_DerivedFromH24 ==
    (ServerObject /\ OnlyH24(result.net.body)) =>
        LET h24 == Get(RawRain(result.net.body), "h0_24").v
            h2472 == ToTenth(80, h24)
        IN  /\ Get(result.out, "rain_0_3_mm") = ToTenth(12, h24)
            /\ Get(result.out, "rain_0_24_mm") = Num(h24)
            /\ Get(result.out, "rain_24_72_mm") = h2472
            /\ Get(result.out, "rain_api_72h_mm") = ToTenth(100, h24 + h2472.v)
            /\ Get(result.out, "terrain_vulnerability_text") = EmDash
            /\ Get(Get(result.out, "prediction"), "index_pct") = Int2Num(28)

\* the nested field that backs each flat field
NestedOf(body, k) ==
    LET m == Get(body, "metrics")
    IN  CASE k = "rain_0_3_mm" -> OptGet(OptGet(m, "rain_mm"), "h0_3")
          [] k = "rain_0_24_mm" -> OptGet(OptGet(m, "rain_mm"), "h0_24")
          [] k = "rain_24_72_mm" -> OptGet(OptGet(m, "rain_mm"), "h24_72")
          [] k = "rain_api_72h_mm" -> OptGet(OptGet(m, "rain_mm"), "api_72h")
          [] OTHER -> OptGet(OptGet(m, "terrain"), "vulnerability_note")

\* C14: each reconciled rain field and the terrain note takes the nested field
\* first, then the flat field, then the default: when both are present the
\* reconciled value is the nested one, when only one is present it is that
\* one, and the default appears only when both are absent.
C14_NestedFirst ==
    ServerObject =>
        \A k \in FlatKeys :
            LET flat == Get(result.net.body, k)
                nested == NestedOf(result.net.body, k)
                dflt == IF k \in FlatRainKeys THEN Num(0) ELSE EmDash
            IN  Get(result.out, k) =
                    (IF ~Nullish(nested) THEN nested
                     ELSE IF ~Nullish(flat) THEN flat ELSE dflt)

\* C18: for a server document that is an object, the payload fetchCity
\* resolves to has the four rain values as non-negative numbers, a numeric
\* risk score and a numeric prediction.index_pct.
C18_ObjectPopulated ==
    ServerObject =>
        /\ \A k \in FlatRainKeys :
              Get(result.out, k).t = "num" /\ Get(result.out, k).v >= 0
        /\ IsNumber(Get(Get(result.out, "metrics"), "risk_score_0_1"))
        /\ IsNumber(Get(Get(result.out, "prediction"), "index_pct"))

\* The raw document after the call.  backfillLegacy assigns to the properties
\* of its argument and returns the argument (lines 46-52), so the document
\* fetchJson parsed is, after fetchCity, the payload itself; fetchCityLive
\* builds its result with an object literal and leaves raw as it was.
RawAfter ==
    IF result.fn = "fetchCity" THEN backfillLegacy(result.net.body)
    ELSE result.net.body

\* whether the value returned is the raw object itself
ReturnsRaw == result.fn = "fetchCity"

\* a reconciliation of a raw document took place and returned
Reconciled ==
    \/ ServerObject /\ result.out.t = "obj"
    \/ LiveResolved /\ result.net.body.t = "obj"

\* C19: after backfillLegacy(p) or the normalization of fetchCityLive the raw
\* object has the fields and values it had before, and the value returned is
\* a new one, not the raw object.
C19_InputUntouched ==
    Reconciled => RawAfter = result.net.body /\ ~ReturnsRaw

\* the first of the values that is present, "medium" when none is
FirstPresent(vs) ==
    LET here == {i \in 1..Len(vs) : ~Nullish(vs[i])}
    IN  IF here = {} THEN Str("medium")
        ELSE vs[CHOOSE i \in here : \A j \in here : i <= j]

\* C15: in the value fetchCityLive returns, prediction.confidence and the
\* top-level confidence are equal, and equal to the first present of the raw
\* prediction.confidence, the raw top-level confidence and the raw
\* sar.confidence, "medium" when none is present.
C15_ConfidenceOrder ==
    (LiveResolved /\ result.net.body.t = "obj") =>
        LET raw == result.net.body
            want == FirstPresent(<<OptGet(Get(raw, "prediction"), "confidence"),
                                   Get(raw, "confidence"),
                                   OptGet(Get(raw, "sar"), "confidence")>>)
        IN  /\ Get(Get(result.out, "prediction"), "confidence") = want
            /\ Get(result.out, "confidence") = want

(***************************************************************************)
(* The requests the two loaders send, followed over time: sent holds the   *)
(* last two, each with the loader, the city, the clock reading at which it *)
(* was sent and its URL.                                                   *)
(***************************************************************************)
\* the log with one more request, the last two kept
Logged(log, r) == IF Len(log) = 2 THEN <<log[2], r>> ELSE Append(log, r)

\* time passes between two requests
UrlTick ==
    /\ \E t \in Times : t > now /\ now' = t
    /\ UNCHANGED <<call, result, prev, again, sent>>
    /\ UNCHANGED compVars

\* fetchCity(city) sends its request
SendCityRequest ==
    /\ \E city \in Cities :
          sent' = Logged(sent, [fn |-> "fetchCity", city |-> city, at |-> now,
                                url |-> FetchJsonUrl(city, now)])
    /\ UNCHANGED restVars
    /\ UNCHANGED compVars

\* fetchCityLive(cityId) sends its request
SendLiveRequest ==
    /\ \E id \in Cities :
          sent' = Logged(sent, [fn |-> "fetchCityLive", city |-> id, at |-> now,
                                url |-> LiveUrl(id, now)])
    /\ UNCHANGED restVars
    /\ UNCHANGED compVars

UrlNext ==
    \/ UrlTick
    \/ SendCityRequest
    \/ SendLiveRequest

UrlSpec == Init /\ [][UrlNext]_vars

\* the last two requests were sent by the loader fn for one city
TwoRequests(fn) ==
    /\ Len(sent) = 2
    /\ sent[1].fn = fn /\ sent[2].fn = fn
    /\ sent[1].city = sent[2].city

\* C16: the URL fetchCityLive requests carries t = floor(now / 10800000), and
\* two requests for one city have the same URL exactly when they were sent in
\* the same 3-hour bucket.
C16_LiveUrlPerBucket ==
    /\ \A i \in 1..Len(sent) :
          sent[i].fn = "fetchCityLive" => sent[i].url.t = sent[i].at \div BucketMs
    /\ TwoRequests("fetchCityLive") =>
          ((sent[1].url = sent[2].url)
              <=> (sent[1].at \div BucketMs = sent[2].at \div BucketMs))

\* two live requests for lagos at different milliseconds of bucket 0 with one URL
C16_Witness ==
    /\ TwoRequests("fetchCityLive")
    /\ sent[1].city = "lagos"
    /\ sent[1].at = 1 /\ sent[2].at = BucketMs - 1
    /\ sent[1].url = sent[2].url

\* C17: two fetchCity calls for one city at two times of the same 3-hour
\* bucket request the same URL.
C17_CityUrlPerBucket ==
    (/\ TwoRequests("fetchCity")
     /\ sent[1].at \div BucketMs = sent[2].at \div BucketMs) =>
        sent[1].url = sent[2].url

(***************************************************************************)
(* The city store, Home's city load effect and CityPanel's loadCities:     *)
(*   store/cityStore (ui/time.ts lines 92-118), pages/Home (part_012 lines *)
(*   65-91 and 150-171), components/CityPanel.tsx lines 30-55 and 78-94.   *)
(* React runs the cleanup of an effect and the effect anew in the commit   *)
(* that follows a change of its dependency: a change of the store and the  *)
(* effects it triggers are one step.                                       *)
(***************************************************************************)
\* at most MaxRuns fetches of Home are in flight at a time
MaxRuns == 2

\* the elements of a sequence
Range(seq) == {seq[i] : i \in DOMAIN seq}

\* seq without its i-th element
Without(seq, i) == [j \in 1..(Len(seq) - 1) |-> IF j < i THEN seq[j] ELSE seq[j + 1]]

\* the ids by name, the order list.sort((a, b) => a.name.localeCompare(b.name)) gives
NameOrder == <<"alexandria", "lagos">>
SortByName(list) == SelectSeq(NameOrder, LAMBDA c : c \in Range(list))

\* what fetchCities may resolve to (a failure apart)
CityLists == {<<>>, <<"lagos">>, <<"lagos", "alexandria">>}

\* the ids a URL hash may name: the cities and an id that matches no city
HashIds == Cities \cup {"atlantis"}

\* store.setCities: nothing is set when the ids are the same in the same order
SetCities(st, list) == IF st.cities = list THEN st ELSE [st EXCEPT !.cities = list]

\* store.setSelectedCityId
SetSelectedCityId(st, id) ==
    IF st.selectedCityId = id THEN st ELSE [st EXCEPT !.selectedCityId = id]

\* Home: selectedCity?.id, with selectedCity = cities.find(id === selectedCityId) ?? null
SelectedCityIdOf(st) ==
    IF st.selectedCityId \in Range(st.cities) THEN st.selectedCityId ELSE NoId

\* the test of the cancelled flag, never made
Cancelled_never(run) == FALSE
\* if (cancelled) / if (!cancelled): the flag of the closure
Cancelled(run) == run.cancelled

\* the cleanup of the city load effect: cancelled = true in every run begun
CleanedUp(runs) == [i \in DOMAIN runs |-> [runs[i] EXCEPT !.cancelled = TRUE]]

\* the city load effect for selectedCity?.id = id, after the cleanup of the
\* run before it, up to its await
CityLoadEffect(h, id) ==
    IF id = NoId
    THEN [h EXCEPT !.runs = CleanedUp(h.runs), !.cityData = Null, !.dataFor = NoId]
    ELSE [h EXCEPT !.runs = Append(CleanedUp(h.runs), [city |-> id, cancelled |-> FALSE]),
                   !.loadingCity = TRUE]

\* Home after the store changed from st to st2
Rerendered(h, st, st2) ==
    IF h.mounted /\ SelectedCityIdOf(st2) # SelectedCityIdOf(st)
    THEN CityLoadEffect(h, SelectedCityIdOf(st2))
    ELSE h

\* the store change st -> st2 begins no fetch beyond the bound
WithinRuns(st, st2) ==
    (home.mounted /\ SelectedCityIdOf(st2) \notin {NoId, SelectedCityIdOf(st)}) =>
        Len(home.runs) < MaxRuns

\* the rest of the effect once fetchCity settled with out, for the run r
CityLoadSettled(h, r, out) ==
    IF Cancelled(r) THEN h
    ELSE [h EXCEPT !.cityData = IF out.t = "throw" THEN Null ELSE out,
                   !.dataFor = IF out.t = "throw" THEN NoId ELSE r.city,
                   !.loadingCity = FALSE,
                   !.writer = r]

\* how the request of Home's fetchCity may end: no document, an object, a number
HomeNets == {NetFailure, Response(404, BadJson), Response(200, EmptyObj),
             Response(200, Num(5000))}

\* the rest of loadCities once fetchCities settled: with list, or rejected
\* when ok is false; pn and st are the panel and the store before
LoadCitiesSettled(pn, st, ok, list) ==
    LET stop == Cancelled(pn)
        sorted == SortByName(list)
        st1 == SetCities(st, sorted)
        st2 == IF st1.selectedCityId = NoId /\ Len(sorted) > 0
               THEN SetSelectedCityId(st1, sorted[1]) ELSE st1
        called == IF ok THEN {"setCities", "setIsLoading"}
                        \cup (IF st2 # st1 THEN {"setSelectedCityId"} ELSE {})
                  ELSE {"setError", "setIsLoading"}
    IN  IF stop THEN [panel |-> [pn EXCEPT !.pending = FALSE], store |-> st]
        ELSE [panel |-> [pn EXCEPT !.pending = FALSE,
                                   !.isLoading = FALSE,
                                   !.error = IF ok THEN pn.error
                                             ELSE Str("Failed to fetch cities"),
                                   !.late = IF pn.cancelled THEN called ELSE {}],
              store |-> IF ok THEN st2 ELSE st]

\* Home mounts: its effects run for the store as it is
MountHome ==
    /\ home = HomeOff
    /\ home' = CityLoadEffect([HomeOff EXCEPT !.mounted = TRUE], SelectedCityIdOf(store))
    /\ UNCHANGED <<store, panel, query, sent>>
    /\ UNCHANGED restVars

\* Home: the hash names a city id (first load or hashchange)
HashChange ==
    /\ home.mounted
    /\ \E id \in HashIds :
          /\ WithinRuns(store, SetSelectedCityId(store, id))
          /\ store' = SetSelectedCityId(store, id)
          /\ home' = Rerendered(home, store, store')
    /\ UNCHANGED <<panel, query, sent>>
    /\ UNCHANGED restVars

\* CityPanel: a card is picked (handlePick up to its first await)
HandlePick ==
    /\ panel.mounted
    /\ \E target \in Range(store.cities) :
          /\ WithinRuns(store, SetSelectedCityId(store, target))
          /\ store' = SetSelectedCityId(store, target)
          /\ home' = Rerendered(home, store, store')
    /\ UNCHANGED <<panel, query, sent>>
    /\ UNCHANGED restVars

\* a fetchCity of Home settles and its effect run continues
SettleCityLoad ==
    /\ \E i \in DOMAIN home.runs :
       \E net \in HomeNets :
          home' = CityLoadSettled([home EXCEPT !.runs = Without(home.runs, i)],
                                  home.runs[i],
                                  fetchCity(home.runs[i].city, net, now, now))
    /\ UNCHANGED <<store, panel, query, sent>>
    /\ UNCHANGED restVars

\* Home unmounts: the cleanup of its effect runs
UnmountHome ==
    /\ home.mounted
    /\ home' = [home EXCEPT !.mounted = FALSE, !.runs = CleanedUp(home.runs)]
    /\ UNCHANGED <<store, panel, query, sent>>
    /\ UNCHANGED restVars

\* 60 * 1000, the period of the rollover interval in milliseconds
TickMs == 60000

\* CityPanel mounts: loadCities runs up to its await of fetchCities, and the
\* rollover interval is set
MountPanel ==
    /\ panel = PanelOff
    /\ panel' = [PanelOff EXCEPT !.mounted = TRUE, !.isLoading = TRUE,
                                 !.error = Null, !.pending = TRUE,
                                 !.bucket = current3hBucket(now),
                                 !.since = current3hBucket(now),
                                 !.nextTick = now + TickMs]
    /\ UNCHANGED <<store, home, query, sent>>
    /\ UNCHANGED restVars

\* fetchCities settles and loadCities continues
SettleCities ==
    /\ panel.pending
    /\ \E ok \in BOOLEAN, list \in CityLists :
          LET after == LoadCitiesSettled(panel, store, ok, list)
          IN  /\ ok \/ list = <<>>
              /\ WithinRuns(store, after.store)
              /\ panel' = after.panel
              /\ store' = after.store
              /\ home' = Rerendered(home, store, after.store)
    /\ UNCHANGED <<query, sent>>
    /\ UNCHANGED restVars

\* CityPanel unmounts: the cleanup of its effect runs
UnmountPanel ==
    /\ panel.mounted
    /\ panel' = [panel EXCEPT !.mounted = FALSE, !.cancelled = TRUE]
    /\ UNCHANGED <<store, home, query, sent>>
    /\ UNCHANGED restVars

HomeNext ==
    \/ MountHome
    \/ HashChange
    \/ HandlePick
    \/ SettleCityLoad
    \/ UnmountHome
    \/ MountPanel
    \/ SettleCities
    \/ UnmountPanel

HomeSpec == Init /\ [][HomeNext]_vars

\* a fetch for the selected city is in flight and will be heeded
FetchInFlight ==
    \E i \in DOMAIN home.runs :
        home.runs[i].city = SelectedCityIdOf(store) /\ ~home.runs[i].cancelled

\* C11: in Home the result or failure of a fetch is never written once the
\* selected city changed away from its city or Home unmounted, so that cityData,
\* when it is set and no fetch for the selected city is in flight, belongs to
\* the selected city; and loadCities of CityPanel calls no setter after the
\* panel unmounted.
C11_StaleDiscarded ==
    /\ ~home.writer.cancelled
    /\ (home.mounted /\ home.cityData # Null /\ ~FetchInFlight) =>
          home.dataFor = SelectedCityIdOf(store)
    /\ panel.late = {}

\* Home began a fetch with alexandria selected and unmounted; every fetch then
\* settled and none wrote (loadingCity is still true, no run ever wrote)
C11_Witness ==
    /\ ~home.mounted
    /\ store.selectedCityId = "alexandria"
    /\ home.runs = <<>>
    /\ home.loadingCity
    /\ home.writer.city = NoId

(***************************************************************************)
(* One activation of a "city-live" query: useQuery({queryKey: ["city-live", *)
(* id], queryFn: () => fetchCityLive(id), ...}) in CityCard (part_016      *)
(* lines 255-260), in the earlier CityCard (part_015 lines 20-26) and in   *)
(* MapView (part_013 lines 51-57).  The query client retries a failed      *)
(* queryFn as often as the retry option says.  The two later sites pass    *)
(* retry: false; the earlier CityCard passes no retry option, and the      *)
(* default of the query client then applies: the client is created outside *)
(* the sources at hand, and without defaultOptions its documented default  *)
(* is 3 retries.  A query that has ended is fetched again when it is      *)
(* invalidated or has gone stale; it keeps its data meanwhile, and, when   *)
(* it has data, its error.                                                 *)
(***************************************************************************)
\* the documented default of the query client: a failed query is retried 3 times
DefaultRetry == 3

\* the retry option of each site: 0 for retry: false
QuerySites == {"CityCard", "CityCard.part_015", "CityCard.earlier", "MapView"}
RetryOption(site) == IF site = "CityCard.part_015" THEN DefaultRetry ELSE 0

\* the risk.score values of the documents the cards are given: scores on
\* both sides of each level threshold, the ends of the scale, scores beyond
\* it, and values that are no finite number
CardScores ==
    {Num(0), Num(320), Num(330), Num(350), Num(390), Num(400), Num(650),
     Num(660), Num(680), Num(700), Num(994), Num(995), Num(1000), Num(62400),
     PosInf, Str("0.5")}

\* the rain blocks of the documents: a measured zero, values with and without
\* a fraction, missing values
CardRains ==
    {Obj([h3 |-> Num(0), h24 |-> Num(30000), h72 |-> Num(12340), api72 |-> Null]),
     Obj([h3 |-> Num(2040), h24 |-> Null, h72 |-> Num(50)])}

\* the live documents the cards are given: with and without a confidence
\* under sar, at the top and in the prediction; with and without a risk
\* level; with and without a stored percent
CardDocs ==
    {Obj(s @@ c @@ [cityId |-> Str("lagos")]) :
        s \in Opt("sar", {EmptyObj, Obj([confidence |-> Null]),
                          Obj([confidence |-> Str("high")])}),
        c \in Opt("confidence", {Str("high")})}
    \cup {Obj(p @@ [risk |-> Obj([score |-> x]), cityId |-> Str("lagos")]) :
            x \in CardScores,
            p \in Opt("prediction", {Obj([index_pct |-> Num(100000)])})}
    \cup {Obj([risk |-> Obj([score |-> Num(350), level |-> Str("High")]),
               cityId |-> Str("lagos")]),
          Obj([risk |-> Obj([level |-> Str("Low")]), cityId |-> Str("lagos")])}
    \cup {Obj([rain |-> r, cityId |-> Str("lagos")]) : r \in CardRains}

\* how the request of the query function may end
QueryNets == NetOutcomes(LiveSarBodies \cup CardDocs)

\* the component mounts with a city id: the query fetches at once
MountQuery ==
    /\ query = QueryOff
    /\ \E site \in QuerySites, id \in Cities :
          query' = [mounted |-> TRUE, site |-> site, id |-> id,
                    retry |-> RetryOption(site), status |-> "fetching",
                    failureCount |-> 0, requests |-> 1, data |-> Undef,
                    error |-> Undef]
    /\ UNCHANGED <<sent, store, home, panel>>
    /\ UNCHANGED restVars

\* the request of fetchCityLive ends: the query succeeds, fails for good, or
\* is left to be retried
SettleQuery ==
    /\ query.mounted
    /\ query.status = "fetching"
    /\ \E net \in QueryNets :
          LET out == fetchCityLive(query.id, net)
          IN  query' =
                IF out.t # "throw"
                THEN [query EXCEPT !.status = "success", !.data = out,
                                   !.error = Undef]
                ELSE IF query.failureCount < query.retry
                THEN [query EXCEPT !.status = "paused", !.failureCount = @ + 1]
                ELSE [query EXCEPT !.status = "error",
                                   !.failureCount = @ + 1, !.error = out]
    /\ UNCHANGED <<sent, store, home, panel>>
    /\ UNCHANGED restVars

\* the retry delay is over: the query function is called again
RetryQuery ==
    /\ query.mounted
    /\ query.status = "paused"
    /\ query' = [query EXCEPT !.status = "fetching", !.requests = @ + 1]
    /\ UNCHANGED <<sent, store, home, panel>>
    /\ UNCHANGED restVars

\* the query that has ended is invalidated or refetched: a new activation.
\* A query that never had data starts over, its error dropped.
RefetchQuery ==
    /\ query.mounted
    /\ query.status \in {"success", "error"}
    /\ query' = [query EXCEPT !.status = "fetching", !.failureCount = 0,
                              !.requests = 1,
                              !.error = IF query.data = Undef THEN Undef ELSE @]
    /\ UNCHANGED <<sent, store, home, panel>>
    /\ UNCHANGED restVars

QueryNext ==
    \/ MountQuery
    \/ SettleQuery
    \/ RetryQuery
    \/ RefetchQuery

QuerySpec == Init /\ [][QueryNext]_vars

IsLoading(q) == q.status \in {"fetching", "paused"} /\ q.data = Undef

\* isError of useQuery: the last activation failed
IsError(q) ==
    \/ q.status = "error"
    \/ q.status \in {"fetching", "paused"} /\ q.error # Undef

\* the dash the cards render for what is missing
Dash == "U+2014"

\* the labels of the three confidences
RealLabels == {"Low", "Medium", "High"}

\* value.toLowerCase(), for the strings the documents carry
Lower(s) == IF s = "HIGH" THEN "high" ELSE s

\* value.charAt(0).toUpperCase() + value.slice(1)
Capitalized(s) ==
    CASE s = "low" -> "Low"
      [] s = "medium" -> "Medium"
      [] s = "high" -> "High"
      [] OTHER -> s

\* the keys of the style tables of the badges
StyleKeys == {"high", "medium", "low"}

\* confidenceBadge(confidence) of ui/format.tsx: (confidence ?? "low"), lower
\* case, capitalized; a value that is no string has no toLowerCase
confidenceBadge(confidence) ==
    IF ~Nullish(confidence) /\ confidence.t # "str" THEN TypeError
    ELSE LET value == Lower(Coalesce(confidence, Str("low")).s)
         IN  [t |-> "badge", label |-> <<Capitalized(value)>>,
              style |-> IF value \in StyleKeys THEN value ELSE "low"]

\* the badge of the earlier CityCard: data?.sar.confidence, the dashed
\* "Confidence -" badge when it is falsy; data.sar is read without ?.
CardConfidenceBadge(data) ==
    IF ~Nullish(data) /\ Nullish(Get(data, "sar")) THEN TypeError
    ELSE LET confidence == Get(OptGet(data, "sar"), "confidence")
         IN  IF ~Truthy(confidence)
             THEN [t |-> "badge", label |-> <<"Confidence", Dash>>, style |-> "dashed"]
             ELSE IF confidence.t # "str" THEN TypeError
             ELSE [t |-> "badge", label |-> <<"Confidence", Capitalized(confidence.s)>>,
                   style |-> IF confidence.s \in StyleKeys THEN confidence.s
                             ELSE "none"]

\* combinedConfidence of CityCard: prediction.confidence ?? confidence ??
\* sar.confidence ?? undefined, given to confidenceBadge
combinedConfidence(data) ==
    confidenceBadge(
        Coalesce(Coalesce(Coalesce(OptGet(OptGet(data, "prediction"), "confidence"),
                                   OptGet(data, "confidence")),
                          OptGet(OptGet(data, "sar"), "confidence")),
                 Undef))

\* the confidence badge each card renders of its query
CardBadge(q) ==
    CASE q.site = "CityCard" -> combinedConfidence(q.data)
      [] q.site = "CityCard.earlier" -> CardConfidenceBadge(q.data)
      [] OTHER -> Null

\* C21: for a payload whose sar.confidence is null or absent, the confidence
\* badge the card renders shows none of the labels Low, Medium, High, and
\* rendering it does not throw.
C21_PlaceholderBadge ==
    (/\ query.mounted
     /\ query.site \in {"CityCard", "CityCard.earlier"}
     /\ query.data # Undef
     /\ Nullish(OptGet(OptGet(query.data, "sar"), "confidence"))) =>
        /\ CardBadge(query).t = "badge"
        /\ Range(CardBadge(query).label) \cap RealLabels = {}

(***************************************************************************)
(* The number formatters: fmtNA of ui/format.tsx (lines 6-27) and          *)
(* formatNumber of the earlier CityCard (part_016 lines 44-47), followed   *)
(* alone.  A rendered number is the sequence of its char codes, followed   *)
(* by its unit.  toLocaleString is taken in a locale that writes digits    *)
(* 0-9, "." and "-"; the numbers stay below 1000, where no locale groups   *)
(* digits.  Rounding is done on the exact decimal value, a half away from  *)
(* zero.                                                                   *)
(***************************************************************************)
\* the char code of the dash the formatters render for a missing value
DashCode == 8212

\* the char codes of "-", "." and "0"
MinusCode == 45
PointCode == 46
ZeroCode == 48

\* "Infinity"
InfinityCodes == <<73, 110, 102, 105, 110, 105, 116, 121>>

\* 10^d
RECURSIVE Pow10(_)
Pow10(d) == IF d = 0 THEN 1 ELSE 10 * Pow10(d - 1)

\* the d digits of n < 10^d, zeros in front
RECURSIVE PadDigits(_, _)
PadDigits(n, d) ==
    IF d = 0 THEN <<>> ELSE Append(PadDigits(n \div 10, d - 1), ZeroCode + (n % 10))

\* the fraction q/10^d cut down to the fewest digits, not below min, that
\* lose only zeros
RECURSIVE Trimmed(_, _, _)
Trimmed(q, d, min) ==
    IF d > min /\ q % 10 = 0 THEN Trimmed(q \div 10, d - 1, min) ELSE <<q, d>>

\* m/1000 written with at least min and at most max fraction digits
FractionCodes(m, min, max) ==
    LET abs == IF m < 0 THEN 0 - m ELSE m
        qd == Trimmed(RoundDiv(abs * Pow10(max), 1000), max, min)
        q == qd[1]
        d == qd[2]
    IN  (IF m < 0 THEN <<MinusCode>> ELSE <<>>)
        \o Digits(q \div Pow10(d))
        \o (IF d = 0 THEN <<>> ELSE <<PointCode>> \o PadDigits(q % Pow10(d), d))

\* Number(value) for a value that is no number
ToNumber(value) ==
    CASE value.t \in {"num", "nan", "inf"} -> value
      [] value = Str("0.5") -> Num(500)
      [] value = Str("") -> Num(0)
      [] value.t = "bool" -> IF value.b THEN Num(1000) ELSE Num(0)
      [] OTHER -> NaN

\* the span of class "na" that holds the dash
NaSpan == [t |-> "span", na |-> TRUE, text |-> <<DashCode>>, unit |-> ""]

\* fmtNA testing the value for falsiness in place of null, undefined and NaN
fmtNA_falsy(value, unit, digits) ==
    IF ~Truthy(value) THEN NaSpan
    ELSE LET numeric == IF TypeOf(value) = "number" THEN value ELSE ToNumber(value)
         IN  IF numeric.t # "num" THEN NaSpan
             ELSE [t |-> "span", na |-> FALSE,
                   text |-> FractionCodes(numeric.v,
                                          IF numeric.v % 1000 = 0 THEN 0 ELSE digits,
                                          digits),
                   unit |-> unit]

\* fmtNA(value, unit, digits): what the span it returns holds
fmtNA(value, unit, digits) ==
    IF value.t \in {"null", "undefined", "nan"} THEN NaSpan
    ELSE LET numeric == IF TypeOf(value) = "number" THEN value ELSE ToNumber(value)
         IN  IF numeric.t # "num" THEN NaSpan
             ELSE [t |-> "span", na |-> FALSE,
                   text |-> FractionCodes(numeric.v,
                                          IF numeric.v % 1000 = 0 THEN 0 ELSE digits,
                                          digits),
                   unit |-> unit]

\* formatNumber(value, suffix, digits): the string it returns, or the Throw
\* of toFixed called on what is no number
formatNumber(value, suffix, digits) ==
    IF value.t \in {"null", "undefined", "nan"} THEN NaSpan
    ELSE IF TypeOf(value) # "number" THEN TypeError
    ELSE IF value.t = "inf"
    THEN [t |-> "span", na |-> FALSE,
          text |-> (IF value.sign < 0 THEN <<MinusCode>> ELSE <<>>) \o InfinityCodes,
          unit |-> suffix]
    ELSE [t |-> "span", na |-> FALSE,
          text |-> FractionCodes(value.v, digits, digits), unit |-> suffix]

\* the numbers 0, 0.05, 0.10, ... up to FormatSteps steps are formatted
FormatSteps == 40

\* the values given to the formatters
FormatValues ==
    {Null, Undef, NaN, PosInf, NegInf, Str("0.5"), Str("x")}
    \cup {Num(50 * k) : k \in 0..FormatSteps}
    \cup {Num(-40), Num(4), Num(949), Num(2040), Num(12340), Num(30000), Num(999949)}

\* the units and the fraction digits the cards ask for
FormatUnits == {"", " mm", "%", " km^2"}
FormatDigits == {0, 1, 2}

\* fmtNA(value, unit, digits, className)
CallFmtNA ==
    /\ \E value \in FormatValues, unit \in FormatUnits, digits \in FormatDigits :
          result' = [fn |-> "fmtNA", arg |-> value, unit |-> unit, digits |-> digits,
                     out |-> fmtNA(value, unit, digits)]
    /\ UNCHANGED <<now, call, prev, again>>
    /\ UNCHANGED uiVars

\* formatNumber(value, suffix, digits)
CallFormatNumber ==
    /\ \E value \in FormatValues, unit \in FormatUnits, digits \in FormatDigits :
          result' = [fn |-> "formatNumber", arg |-> value, unit |-> unit,
                     digits |-> digits, out |-> formatNumber(value, unit, digits)]
    /\ UNCHANGED <<now, call, prev, again>>
    /\ UNCHANGED uiVars

FormatNext ==
    \/ CallFmtNA
    \/ CallFormatNumber

FormatSpec == Init /\ [][FormatNext]_vars

\* the number, in thousandths, that a sequence of digits with at most one
\* point stands for (the sign left aside)
RECURSIVE Decoded(_, _, _)
Decoded(codes, value, unit) ==
    IF codes = <<>> THEN value
    ELSE IF Head(codes) = PointCode THEN Decoded(Tail(codes), value, 100)
    ELSE IF unit = 1000
    THEN Decoded(Tail(codes), 10 * value + 1000 * (Head(codes) - ZeroCode), 1000)
    ELSE Decoded(Tail(codes), value + unit * (Head(codes) - ZeroCode), unit \div 10)

\* the codes are digits around at most one point, after at most one minus
IsDigits(codes) ==
    LET body == IF codes # <<>> /\ Head(codes) = MinusCode THEN Tail(codes) ELSE codes
    IN  /\ body # <<>>
        /\ \A i \in DOMAIN body : body[i] \in (ZeroCode..(ZeroCode + 9)) \cup {PointCode}
        /\ Cardinality({i \in DOMAIN body : body[i] = PointCode}) <= 1
        /\ body[1] # PointCode /\ body[Len(body)] # PointCode

\* the size of the number the rendered digits stand for
Magnitude(codes) ==
    Decoded(IF Head(codes) = MinusCode THEN Tail(codes) ELSE codes, 0, 1000)

\* C22: fmtNA and formatNumber render null, undefined and NaN as the dash
\* alone; every finite number, a measured 0 included, they render as digits
\* that stand for the number rounded to the digits asked for, followed by the
\* unit, and never as the dash.
C22_DashOnlyForMissing ==
    result.fn \in {"fmtNA", "formatNumber"} =>
        /\ result.arg.t \in {"null", "undefined", "nan"} => result.out = NaSpan
        /\ result.arg.t = "num" =>
              /\ result.out.t # "throw"
              /\ ~result.out.na
              /\ IsDigits(result.out.text)
              /\ result.out.unit = result.unit
              /\ LET abs == IF result.arg.v < 0 THEN 0 - result.arg.v ELSE result.arg.v
                     diff == Magnitude(result.out.text) - abs
                 IN  2 * Pow10(result.digits) * diff \in -1000..1000

\* a measured 0 is rendered by fmtNA, with its unit
C22_Witness ==
    /\ result.fn = "fmtNA"
    /\ result.arg = Num(0)
    /\ result.unit = " mm"
    /\ result.out = [t |-> "span", na |-> FALSE, text |-> <<ZeroCode>>, unit |-> " mm"]

(***************************************************************************)
(* The risk percent and the risk level of the cards                        *)
(***************************************************************************)
\* clampPct(v) = Math.max(0, Math.min(100, Math.round(v)))
clampPct(v) == MathMax(Num(0), MathMin(Num(100000), MathRound(v)))

\* a number that is finite: typeof v === "number" && isFinite(v)
FiniteNumber(v) == TypeOf(v) = "number" /\ IsFiniteNum(v)

\* riskScore01 of CityCard: data?.risk?.score when it is a finite number
riskScore01(data) ==
    LET score == OptGet(OptGet(data, "risk"), "score")
    IN  IF FiniteNumber(score) THEN score ELSE Undef

\* derivedIndexPct of CityCard
derivedIndexPct(data) == toIndexPctFromScore(riskScore01(data))

\* riskIndex of the CityCard of part_015: the stored percent, then the score,
\* then 28
riskIndex(data) ==
    LET p == OptGet(data, "prediction")
        fromPct == IF FiniteNumber(OptGet(p, "index_pct")) THEN OptGet(p, "index_pct")
                   ELSE IF FiniteNumber(OptGet(p, "risk_index")) THEN OptGet(p, "risk_index")
                   ELSE Null
        score == riskScore01(data)
    IN  IF TypeOf(fromPct) = "number" THEN clampPct(fromPct)
        ELSE IF ~Nullish(score) THEN clampPct(Times100(clamp01(score)))
        ELSE Num(CardFallback * 100)

\* the percent each card derives its level from
CardRiskPct(q) ==
    IF q.site = "CityCard.part_015" THEN riskIndex(q.data) ELSE derivedIndexPct(q.data)

\* the level of a percent: >= 66 High, >= 33 Medium, else Low
LevelOfPct(pct) ==
    IF pct.v >= 66000 THEN "High" ELSE IF pct.v >= 33000 THEN "Medium" ELSE "Low"

\* riskLevel of CityCard, in both versions: data?.risk?.level ?? the level of
\* the percent
riskLevel(q) ==
    Coalesce(OptGet(OptGet(q.data, "risk"), "level"), Str(LevelOfPct(CardRiskPct(q))))

\* C23: when the payload gives no risk.level, the level the card shows is Low
\* for a risk percent below 40, Medium from 40 to below 70, High from 70 on.
C23_LevelThresholds ==
    (/\ query.mounted
     /\ query.site \in {"CityCard", "CityCard.part_015"}
     /\ query.data # Undef
     /\ Nullish(OptGet(OptGet(query.data, "risk"), "level"))) =>
        LET p == CardRiskPct(query).v
        IN  riskLevel(query) =
              Str(IF p < 40000 THEN "Low" ELSE IF p < 70000 THEN "Medium" ELSE "High")

(***************************************************************************)
(* The body of CityCard: part_016 lines 281-283 and 360-366 (the earlier   *)
(* CityCard has the same lines at 89-91 and 124-130)                       *)
(***************************************************************************)
EMPTY_STATE_MESSAGE == "No recent data for this city yet."

\* typedError?.code
ErrorCode(q) == IF Nullish(q.error) THEN Undef ELSE q.error.code

\* typedError?.message, a string that is not empty
ErrorMessage(q) ==
    IF Nullish(q.error) THEN Undef
    ELSE [t |-> "str", s |-> "message", of |-> q.error.message]

\* const noData = (typedError?.code === "NO_DATA" && isError)
\*                || (!isLoading && !data && !isError)
noData(q) ==
    \/ ErrorCode(q) = Str("NO_DATA") /\ IsError(q)
    \/ ~IsLoading(q) /\ ~Truthy(q.data) /\ ~IsError(q)

\* const genericError = isError && typedError?.code !== "NO_DATA"
\*                      ? typedError?.message ?? "Live data unavailable." : null
genericError(q) ==
    IF IsError(q) /\ ErrorCode(q) # Str("NO_DATA")
    THEN Coalesce(ErrorMessage(q), Str("Live data unavailable."))
    ELSE Null

\* isLoading ? .. : noData ? .. : genericError ? .. : data ? .. : null
CardBody(q) ==
    IF IsLoading(q) THEN [state |-> "loading", text |-> Str("Loading live metrics.")]
    ELSE IF noData(q) THEN [state |-> "empty", text |-> Str(EMPTY_STATE_MESSAGE)]
    ELSE IF Truthy(genericError(q)) THEN [state |-> "error", text |-> genericError(q)]
    ELSE IF Truthy(q.data) THEN [state |-> "data", text |-> Null]
    ELSE [state |-> "null", text |-> Null]

\* the query failed on a 404 of the live document
NotFound(q) == IsError(q) /\ q.error = LiveHttpError(q.id, 404)

\* in every state of its query the card renders one of the four bodies
OneBody ==
    (query.mounted /\ query.site \in {"CityCard", "CityCard.earlier"}) =>
        /\ CardBody(query).state \in {"loading", "empty", "error", "data"}
        /\ CardBody(query).state = "loading" <=> IsLoading(query)
        /\ CardBody(query).state = "data" =>
              ~IsLoading(query) /\ ~IsError(query) /\ query.data # Undef

\* C24: in every state of its query CityCard renders exactly one of the
\* bodies loading, empty state, error hint and data, and for a query that
\* failed on an upstream 404 it renders the empty-state message, never the
\* text of the error.
C24_NotFoundIsEmptyState ==
    /\ OneBody
    /\ (query.mounted /\ query.site \in {"CityCard", "CityCard.earlier"}
        /\ ~IsLoading(query) /\ NotFound(query)) =>
          CardBody(query) = [state |-> "empty", text |-> Str(EMPTY_STATE_MESSAGE)]

(***************************************************************************)
(* CityCard's normalizedPrediction (part_016 lines 302-319) and the        *)
(* percent PredictionCard shows of it: PredictionCard.tsx lines 93-106,    *)
(* and lines 29-32 in the earlier PredictionCard                           *)
(***************************************************************************)
\* predConfidence of CityCard
predConfidence(data) ==
    Coalesce(Coalesce(OptGet(OptGet(data, "prediction"), "confidence"),
                      OptGet(data, "confidence")),
             Str("medium"))

\* normalizedPrediction of CityCard: {...base, index_pct, risk_index,
\* confidence, notes}
normalizedPrediction(data) ==
    LET base == Coalesce(OptGet(data, "prediction"), EmptyObj)
    IN  Obj(("index_pct" :> derivedIndexPct(data))
            @@ ("risk_index" :> derivedIndexPct(data))
            @@ ("confidence" :> predConfidence(data))
            @@ ("notes" :> Coalesce(Get(base, "notes"), DefaultNotes))
            @@ Spread(base))

\* 28, the percent PredictionCard falls back to
PercentFallback == 28

\* percent of PredictionCard: riskScore, then index_pct, then risk_index, then 28
PredictionCardPercent(prediction, riskScore) ==
    IF FiniteNumber(riskScore) THEN clampPct(Times100(clamp01(riskScore)))
    ELSE IF FiniteNumber(OptGet(prediction, "index_pct"))
    THEN clampPct(OptGet(prediction, "index_pct"))
    ELSE IF FiniteNumber(OptGet(prediction, "risk_index"))
    THEN clampPct(OptGet(prediction, "risk_index"))
    ELSE Int2Num(PercentFallback)

\* pct of the earlier PredictionCard: risk_index read as a fraction of 1
PredictionCardPct(prediction) ==
    MathRound(Times100(MathMax(Num(0),
                               MathMin(Num(1000),
                                       Coalesce(Get(prediction, "risk_index"), Num(0))))))

\* the card renders its data: <PredictionCard prediction={normalizedPrediction} />
ShowsPrediction(q) ==
    q.mounted /\ q.site = "CityCard" /\ CardBody(q).state = "data"

\* round(clamp01(risk.score) * 100) for a finite risk.score, 28 otherwise
ScorePercent(data) ==
    LET score == OptGet(OptGet(data, "risk"), "score")
    IN  IF FiniteNumber(score) THEN MathRound(Times100(clamp01(score)))
        ELSE Int2Num(PercentFallback)

\* C25: the percent PredictionCard displays of the normalizedPrediction that
\* CityCard builds is CityCard's derivedIndexPct, which is
\* round(clamp01(risk.score) * 100) for a finite risk.score and 28 otherwise.
C25_PercentIsDerived ==
    ShowsPrediction(query) =>
        /\ derivedIndexPct(query.data) = ScorePercent(query.data)
        /\ PredictionCardPercent(normalizedPrediction(query.data), Undef)
              = derivedIndexPct(query.data)
        /\ PredictionCardPct(normalizedPrediction(query.data))
              = derivedIndexPct(query.data)

\* the later PredictionCard alone shows the derived percent
LaterCardShowsDerived ==
    ShowsPrediction(query) =>
        /\ derivedIndexPct(query.data) = ScorePercent(query.data)
        /\ PredictionCardPercent(normalizedPrediction(query.data), Undef)
              = derivedIndexPct(query.data)

(***************************************************************************)
(* The rollover effect of CityPanel (CityPanel.tsx lines 57-67): an        *)
(* interval of 60 s whose callback compares current3hBucket() with the     *)
(* bucket state.  setBucket renders the panel again; the effect, which     *)
(* depends on bucket, clears its interval and sets a new one, so that the  *)
(* next tick is 60 s after the one that rolled over as after any other.    *)
(* The clock does not pass a tick that is due, and does not go back.       *)
(***************************************************************************)
\* the clock stays within the buckets 0..RollBuckets
RollBuckets == 2

\* while no panel is mounted the clock moves in steps of 20 s through the
\* first minute of a bucket
RollStep == 20000

\* the callback tests b !== bucket; here with the test left out
RolledOver_always(b, bucket) == TRUE
\* if (b !== bucket)
RolledOver(b, bucket) == b # bucket

\* the interval callback at a clock reading t
BucketTicked(pn, t) ==
    LET b == current3hBucket(t)
    IN  IF RolledOver(b, pn.bucket)
        THEN [pn EXCEPT !.bucket = b, !.invalidated = @ + 1, !.nextTick = t + TickMs]
        ELSE [pn EXCEPT !.nextTick = t + TickMs]

\* the clock readings after now that the clock may show next: while the panel
\* is mounted, the next tick, or the bucket boundary or the millisecond
\* before it when they come first; while it is not, a step further, or on to
\* the end of the bucket
RollTimes ==
    LET boundary == (current3hBucket(now) + 1) * BucketMs
    IN  IF panel.mounted
        THEN {t \in {panel.nextTick, boundary, boundary - 1} :
                t > now /\ t <= panel.nextTick}
        ELSE {t \in {now + RollStep, boundary - 1, boundary} :
                t > now /\ (t >= boundary - 1 \/ t % BucketMs < TickMs)}

\* time passes
RollClock ==
    /\ \E t \in RollTimes :
          /\ current3hBucket(t) <= RollBuckets
          /\ now' = t
    /\ UNCHANGED <<call, result, prev, again>>
    /\ UNCHANGED uiVars

\* the interval fires
BucketTick ==
    /\ panel.mounted
    /\ now = panel.nextTick
    /\ panel' = BucketTicked(panel, now)
    /\ UNCHANGED <<store, home, query, sent>>
    /\ UNCHANGED restVars

RollNext ==
    \/ RollClock
    \/ MountPanel
    \/ BucketTick
    \/ UnmountPanel

RollSpec == Init /\ [][RollNext]_vars

\* the bucket state lags the clock: a boundary was passed since the last tick
BucketStale == panel.mounted /\ current3hBucket(now) # panel.bucket

\* C26: at a tick of the 60 s interval the stored bucket becomes the current
\* one and the "city-live" queries are invalidated once when the two differ,
\* and nothing happens when they are equal; so the stored bucket lags the
\* clock by no more than one boundary and for no longer than one tick, the
\* queries have been invalidated once for each boundary passed since the
\* mount, and the stored bucket never decreases.
C26_RolloverOncePerBoundary ==
    /\ [](BucketStale =>
            /\ current3hBucket(now) = panel.bucket + 1
            /\ now - current3hBucket(now) * BucketMs <= TickMs
            /\ now <= panel.nextTick)
    /\ [](panel.mounted => panel.invalidated = panel.bucket - panel.since)
    /\ [][panel.mounted /\ panel'.mounted => panel'.bucket >= panel.bucket]_vars
    /\ [][BucketTick =>
            /\ panel'.bucket = current3hBucket(now)
            /\ panel'.invalidated =
                 panel.invalidated + (IF current3hBucket(now) = panel.bucket THEN 0 ELSE 1)]_vars

\* the panel, mounted in bucket 0, has passed two boundaries and has
\* invalidated the queries at the first tick after each
C26_Witness ==
    /\ panel.mounted
    /\ panel.since = 0
    /\ panel.bucket = 2
    /\ panel.invalidated = 2
    /\ current3hBucket(now) = 2

\* C27: in Home, whenever no fetch for the selected city is in flight,
\* loadingCity is false.
C27_LoadingOnlyWhileFetching ==
    (home.mounted /\ ~FetchInFlight) => ~home.loadingCity

(***************************************************************************)
(* The metrics-based CityPanel (RiskBadge.tsx lines 47-163) with the store *)
(* of store/cityStore.ts and fetchCityMetrics of lib/api (part_009 lines   *)
(* 9-29).  Its load effect calls fetchCities and then, for every city of   *)
(* the list, fetchCityMetrics(city.id).then(metrics => setCityMetrics(..)).*)
(* Neither promise has a rejection handler.                                *)
(***************************************************************************)
\* the cities of the lists the metrics panel is given
MetricsCities == {"lagos", "alexandria", "cairo"}

\* what fetchCities may resolve to
MetricsLists == {<<>>, <<"lagos">>, <<"lagos", "alexandria">>,
                 <<"lagos", "alexandria", "cairo">>}

\* the documents under data/manual
MetricsBodies == {Obj([risk |-> Str("High"), rain_0_3h |-> Num(3600)]), Null}

\* the metrics fetchCityMetrics returns from its catch
DefaultMetrics(cityId, t) ==
    Obj([cityId |-> Str(cityId), timestamp |-> IsoStr(t), rain_0_3h |-> Num(0),
         rain_0_24h |-> Num(0), rain_24_72h |-> Num(0), risk |-> Str("Low"),
         lastUpdate |-> IsoStr(t), freshness |-> Str("old")])

\* fetchCityMetrics(cityId): the value it resolves to, or the Throw it rejects
\* with.  `return response.json()` leaves the try block with the promise: its
\* rejection is not caught.
fetchCityMetrics(cityId, net, t) ==
    IF net.kind = "failure" \/ ~ResOk(net) THEN DefaultMetrics(cityId, t)
    ELSE IF net.body = BadJson THEN Throw("SyntaxError", "Unexpected token", Undef)
    ELSE net.body

\* setCities of store/cityStore.ts: set({ cities })
SetCitiesPlain(st, list) == [st EXCEPT !.cities = list]

\* setCityMetrics(cityId, metrics): a copy of the map with the entry set
setCityMetrics(st, cityId, metrics) ==
    [st EXCEPT !.cityMetrics = (cityId :> metrics) @@ @]

\* the metrics panel mounts: its effect calls fetchCities
MountMetricsPanel ==
    /\ panel = PanelOff
    /\ panel' = [PanelOff EXCEPT !.mounted = TRUE, !.pending = TRUE]
    /\ UNCHANGED <<store, home, query, sent>>
    /\ UNCHANGED restVars

\* fetchCities settles: with a list, setCities(data) and a fetchCityMetrics
\* begun for every city; with a rejection, nothing
SettleMetricsCities ==
    /\ panel.pending
    /\ \E ok \in BOOLEAN, list \in MetricsLists :
          /\ ok \/ list = <<>>
          /\ store' = IF ok THEN SetCitiesPlain(store, list) ELSE store
          /\ panel' = [panel EXCEPT !.pending = FALSE,
                                    !.metricsCalls = IF ok THEN Range(list) ELSE {}]
    /\ UNCHANGED <<home, query, sent>>
    /\ UNCHANGED restVars

\* one fetchCityMetrics settles, in any order: its then callback runs when it
\* resolved
SettleCityMetrics ==
    /\ \E cityId \in panel.metricsCalls :
       \E net \in NetOutcomes(MetricsBodies) :
          LET out == fetchCityMetrics(cityId, net, now)
          IN  /\ store' = IF out.t = "throw" THEN store
                          ELSE setCityMetrics(store, cityId, out)
              /\ panel' = [panel EXCEPT !.metricsCalls = @ \ {cityId},
                                        !.settled = cityId]
    /\ UNCHANGED <<home, query, sent>>
    /\ UNCHANGED restVars

MetricsNext ==
    \/ MountMetricsPanel
    \/ SettleMetricsCities
    \/ SettleCityMetrics

MetricsSpec == Init /\ [][MetricsNext]_vars

\* fetchCities resolved and every fetchCityMetrics it led to has settled
MetricsSettled == panel.mounted /\ ~panel.pending /\ panel.metricsCalls = {}

\* a step leaves the entries of the cities other than the one whose call
\* settled as they were
OthersUntouched ==
    [][\A c \in DOMAIN store.cityMetrics :
          /\ c \in DOMAIN store'.cityMetrics
          /\ store'.cityMetrics[c] # store.cityMetrics[c] =>
                c = panel'.settled /\ c \in panel.metricsCalls]_vars

\* C28: once fetchCities resolved with a list and the fetchCityMetrics calls
\* have ended, in whatever order and however each ended, cityMetrics holds an
\* entry for every city of the list; setting the entry of one city never
\* removes or changes the entry of another.
C28_EveryCityGetsMetrics ==
    /\ [](MetricsSettled =>
            \A c \in Range(store.cities) : c \in DOMAIN store.cityMetrics)
    /\ OthersUntouched

(***************************************************************************)
(* The SAR overlay of MapView (part_013 lines 46-73 and 271-279).          *)
(* sarOverlayKey is derived from the tiles of the live document that the   *)
(* "city-live" query holds for the selected city: it is null while no city *)
(* is selected, while the query has no document, and for a document        *)
(* without tiles.  The effect that depends on the key runs with the render *)
(* in which the key changed.  The query cache outlives the component.      *)
(***************************************************************************)
\* the keys `${template}|${minzoom ?? ""}|${maxzoom ?? ""}` of the tile sets
\* the live documents name
TileKeys == {"tiles-a|8|14", "tiles-b||"}

\* sarOverlayKey for the store st: liveCity?.tiles of the selected city
SarOverlayKey(m, st) ==
    IF st.selectedCityId \in DOMAIN m.docs THEN m.docs[st.selectedCityId] ELSE NoKey

\* the test of sarInitializedRef.current, never true
Initialized_never(m) == FALSE
\* sarInitializedRef.current
Initialized(m) == m.sarInitialized

\* the effect of [sarOverlayKey], for the key m.key
SarEffect(m) ==
    IF m.key = NoKey
    THEN [m EXCEPT !.sarInitialized = FALSE, !.showSarOverlay = FALSE, !.by = "effect"]
    ELSE IF ~Initialized(m)
    THEN [m EXCEPT !.sarInitialized = TRUE, !.showSarOverlay = TRUE, !.by = "effect"]
    ELSE m

\* MapView rendered for the store st: the effect runs when the key changed
MapRendered(m, st) ==
    IF m.mounted /\ SarOverlayKey(m, st) # m.key
    THEN SarEffect([m EXCEPT !.key = SarOverlayKey(m, st)])
    ELSE m

\* MapView mounts: the effect runs for the key of the first render
MountMap ==
    /\ ~map.mounted
    /\ map' = SarEffect([map EXCEPT !.mounted = TRUE, !.key = SarOverlayKey(map, store)])
    /\ UNCHANGED <<sent, store, home, panel, query>>
    /\ UNCHANGED libVars

\* the selected city changes (hash or pick): the query of MapView changes
\* its key with it
SelectCity ==
    /\ \E id \in HashIds :
          /\ store' = SetSelectedCityId(store, id)
          /\ map' = MapRendered(map, store')
    /\ UNCHANGED <<sent, home, panel, query>>
    /\ UNCHANGED libVars

\* the query of the selected city succeeds: a live document with tiles or
\* without arrives
LiveArrives ==
    /\ store.selectedCityId # NoId
    /\ \E k \in TileKeys \cup {NoKey} :
          map' = MapRendered([map EXCEPT !.docs = (store.selectedCityId :> k) @@ @],
                             store)
    /\ UNCHANGED <<sent, store, home, panel, query>>
    /\ UNCHANGED libVars

\* the user flips the Switch, which is rendered while tiles are available
ToggleSar ==
    /\ map.mounted
    /\ map.key # NoKey
    /\ map' = [map EXCEPT !.showSarOverlay = ~@, !.by = "user",
                          !.offAt = IF map.showSarOverlay THEN map.key ELSE @]
    /\ UNCHANGED <<sent, store, home, panel, query>>
    /\ UNCHANGED libVars

\* MapView unmounts: its ref and its state are gone, the query cache stays
UnmountMap ==
    /\ map.mounted
    /\ map' = [MapOff EXCEPT !.docs = map.docs]
    /\ UNCHANGED <<sent, store, home, panel, query>>
    /\ UNCHANGED libVars

MapNext ==
    \/ MountMap
    \/ SelectCity
    \/ LiveArrives
    \/ ToggleSar
    \/ UnmountMap

MapSpec == Init /\ [][MapNext]_vars

\* C29: the overlay goes on without the user only when tiles become
\* available after there were none, and then it always does; while the key
\* changes from one available tile set to another it stays as the user left
\* it; whenever there are no tiles it is off.
C29_SarAutoEnableOnce ==
    /\ [](map.key = NoKey => ~map.showSarOverlay)
    /\ [](map.mounted => map.key = SarOverlayKey(map, store))
    /\ [][(map'.showSarOverlay /\ ~map.showSarOverlay /\ map'.by = "effect") =>
             (map.key = NoKey /\ map'.key # NoKey)]_vars
    /\ [][(map.key = NoKey /\ map'.key # NoKey) => map'.showSarOverlay]_vars
    /\ [][(map.key # NoKey /\ map'.key # NoKey /\ map'.key # map.key) =>
             map'.showSarOverlay = map.showSarOverlay]_vars

\* the user switched the overlay off under one tile set; another tile set is
\* available now and the overlay is still off
C29_Witness ==
    /\ map.mounted
    /\ map.key = "tiles-b||"
    /\ map.offAt = "tiles-a|8|14"
    /\ map.by = "user"
    /\ ~map.showSarOverlay

(***************************************************************************)
(* The selection against the loaded list (HomeSpec).                       *)
(***************************************************************************)
\* C30: once the city list has loaded with at least one city, selectedCityId
\* is non-null and is the id of a city of the loaded list.
C30_SelectionInLoadedList ==
    store.cities # <<>> => store.selectedCityId \in Range(store.cities)

\* what the code does keep: with a loaded, non-empty list some id is selected
SelectionNonNull ==
    store.cities # <<>> => store.selectedCityId # NoId

====
